---- MODULE Spec2Model ----
(***************************************************************************)
(* A model of the audio fingerprinting core of ShazLite (audio_engine):    *)
(* the fingerprint codec, the batch driver and the landmark pairer, and of *)
(* the Qt client (ApiClient, AudioRecorder).                               *)
(*                                                                         *)
(* 32-bit quantities (uint32_t, int, float) are modelled by their bit      *)
(* pattern, a 4-tuple of bytes written most significant byte first, so     *)
(* that the object representation the codec copies depends on the byte     *)
(* order of the host, as it does in the code.                              *)
(***************************************************************************)
EXTENDS Integers, Sequences, FiniteSets, TLC

VARIABLES
    \* ---- codec (HashGenerator::serialize/deserialize_fingerprints)
    host,           \* byte order of the machine running the codec
    fingerprints,   \* the vector handed to serialize_fingerprints
    data,           \* the bytes serialize_fingerprints returned
    input,          \* the bytes handed to deserialize_fingerprints
    decoded,        \* outcome of deserialize_fingerprints
    codec_pc,
    \* ---- batch driver (HashGenerator::batch_process_reference_songs)
    audio_samples,  \* argument: the samples
    song_ids,       \* argument: the song identifiers
    results,        \* the local vector of BatchProcessingResult
    batch_i,        \* loop index i (0-based, as in the code)
    processed,      \* number of process_audio_sample calls made
    batch_error,    \* what() of the exception the call itself raised, or ""
    batch_pc,
    \* ---- landmark pairer (PeakDetector::extract_landmark_pairs)
    constellation,  \* argument: constellation.peaks
    max_time_delta, \* argument (ms)
    max_freq_delta, \* argument (Hz)
    sorted_peaks,   \* the local copy after std::sort
    pair_i,         \* outer loop index i (0-based)
    landmark_pairs, \* the local output vector
    pairs_pc,
    \* ---- peak detector (PeakDetector::detect_peaks)
    spectrogram,        \* argument: time_frames, frequency_bins and data
    min_peak_distance,  \* min_peak_distance_ of the detector
    candidate_peaks,    \* the local vector the scan fills
    nms_sorted_peaks,   \* sorted_peaks of filter_nearby_peaks
    detected,           \* outcome: constellation.peaks, or the exception
    peaks_pc,
    \* ---- hash generator (HashGenerator::generate_fingerprints)
    freq_quantization,  \* freq_quantization_ (Hz per bin)
    time_quantization,  \* time_quantization_ (ms per bin)
    gen_pairs,          \* argument: landmark_pairs
    gen_bins,           \* the three bins generate_hash computed, per pair
    gen_fingerprints,   \* the local vector fingerprints
    gen_pc,
    \* ---- preprocessor (AudioPreprocessor::preprocess_for_fingerprinting)
    pre_sample,         \* argument: data, sample_rate and channels
    pre_result,         \* outcome: the canonical sample, or the exception
    pre_pc,
    \* ---- resampler (AudioPreprocessor::resample_audio)
    rs_input,           \* argument: input_data
    rs_input_rate,      \* argument: input_rate
    rs_target_rate,     \* argument: target_rate
    rs_output,          \* outcome: the returned vector, or the exception
    rs_pc,
    \* ---- short-time Fourier transform (FFTProcessor::compute_stft)
    fft_size,           \* fft_size_ of the processor
    stft_len,           \* argument: audio_data.size()
    stft_window,        \* argument: window_size
    stft_hop,           \* argument: hop_size
    stft_result,        \* outcome: the shape of the spectrogram, or the exception
    stft_pc,
    \* ---- pipeline (HashGenerator::process_audio_sample)
    pipe_sample,        \* argument: audio_sample
    pipe_result,        \* outcome: the fingerprints, or the exception
    pipe_pc,
    \* ---- API client (ApiClient)
    api,                \* the members of the object, its replies and the
                        \* signals the last slot emitted
    observed,           \* the last event and what the identification under
                        \* way has shown so far
    \* ---- audio recorder (AudioRecorder)
    recorder,           \* the members of the object, the permission status
                        \* and the signals the last slot emitted
    recorded,           \* the last event and the recording it ended
    \* ---- configuration (HashGenerator and PeakDetector parameters)
    generator,          \* the HashGenerator
    detector,           \* the PeakDetector
    config_call,        \* the last call and the exception it raised, or ""
    calls               \* number of calls made

vars == <<host, fingerprints, data, input, decoded, codec_pc,
          audio_samples, song_ids, results, batch_i, processed, batch_error,
          batch_pc, constellation, max_time_delta, max_freq_delta, sorted_peaks,
          pair_i, landmark_pairs, pairs_pc,
          spectrogram, min_peak_distance, candidate_peaks, nms_sorted_peaks,
          detected, peaks_pc,
          freq_quantization, time_quantization, gen_pairs, gen_bins,
          gen_fingerprints, gen_pc,
          pre_sample, pre_result, pre_pc,
          rs_input, rs_input_rate, rs_target_rate, rs_output, rs_pc,
          fft_size, stft_len, stft_window, stft_hop, stft_result, stft_pc,
          pipe_sample, pipe_result, pipe_pc,
          api, observed, recorder, recorded,
          generator, detector, config_call, calls>>

codecVars == <<host, fingerprints, data, input, decoded, codec_pc>>
batchVars == <<audio_samples, song_ids, results, batch_i, processed,
               batch_error, batch_pc>>
pairVars  == <<constellation, max_time_delta, max_freq_delta, sorted_peaks,
               pair_i, landmark_pairs, pairs_pc>>
peakVars  == <<spectrogram, min_peak_distance, candidate_peaks,
               nms_sorted_peaks, detected, peaks_pc>>
hashVars  == <<freq_quantization, time_quantization, gen_pairs, gen_bins,
               gen_fingerprints, gen_pc>>
prepVars  == <<pre_sample, pre_result, pre_pc>>
rsVars    == <<rs_input, rs_input_rate, rs_target_rate, rs_output, rs_pc>>
stftVars  == <<fft_size, stft_len, stft_window, stft_hop, stft_result, stft_pc>>
pipeVars  == <<pipe_sample, pipe_result, pipe_pc>>
clientVars == <<api, observed>>
recorderVars == <<recorder, recorded>>
configVars == <<generator, detector, config_call, calls>>

\* What a step of one component leaves alone: the other components.
notCodec ==
    <<batchVars, pairVars, peakVars, hashVars,
      prepVars, rsVars, stftVars, pipeVars,
      clientVars, recorderVars, configVars>>
notBatch ==
    <<codecVars, pairVars, peakVars, hashVars,
      prepVars, rsVars, stftVars, pipeVars,
      clientVars, recorderVars, configVars>>
notPairs ==
    <<codecVars, batchVars, peakVars, hashVars,
      prepVars, rsVars, stftVars, pipeVars,
      clientVars, recorderVars, configVars>>
notPeaks ==
    <<codecVars, batchVars, pairVars, hashVars,
      prepVars, rsVars, stftVars, pipeVars,
      clientVars, recorderVars, configVars>>
notHash ==
    <<codecVars, batchVars, pairVars, peakVars,
      prepVars, rsVars, stftVars, pipeVars,
      clientVars, recorderVars, configVars>>
notPrep ==
    <<codecVars, batchVars, pairVars, peakVars,
      hashVars, rsVars, stftVars, pipeVars,
      clientVars, recorderVars, configVars>>
notResample ==
    <<codecVars, batchVars, pairVars, peakVars,
      hashVars, prepVars, stftVars, pipeVars,
      clientVars, recorderVars, configVars>>
notStft ==
    <<codecVars, batchVars, pairVars, peakVars,
      hashVars, prepVars, rsVars, pipeVars,
      clientVars, recorderVars, configVars>>
notPipeline ==
    <<codecVars, batchVars, pairVars, peakVars,
      hashVars, prepVars, rsVars, stftVars,
      clientVars, recorderVars, configVars>>
notClient ==
    <<codecVars, batchVars, pairVars, peakVars,
      hashVars, prepVars, rsVars, stftVars,
      pipeVars, recorderVars, configVars>>
notRecorder ==
    <<codecVars, batchVars, pairVars, peakVars,
      hashVars, prepVars, rsVars, stftVars,
      pipeVars, clientVars, configVars>>
notConfig ==
    <<codecVars, batchVars, pairVars, peakVars,
      hashVars, prepVars, rsVars, stftVars,
      pipeVars, clientVars, recorderVars>>

\* ------------------------------------------------------------------------
\* Generic helpers
\* ------------------------------------------------------------------------
Min(a, b) == IF a < b THEN a ELSE b

\* All sequences over S of length at most n.
SeqsUpTo(S, n) == UNION {[1..k -> S] : k \in 0..n}

\* ------------------------------------------------------------------------
\* Codec
\* ------------------------------------------------------------------------
\* Bounds of the codec model.
MaxFingerprints == 2

\* sizeof(uint32_t)
HeaderSize == 4
\* sizeof(uint32_t) + sizeof(int32_t) + 3 * sizeof(float)
FingerprintSize == 4 + 4 + 3 * 4

\* static_cast<uint32_t>(n) for a size n < 2^31, as a bit pattern.
U32(n) == <<(n \div 16777216) % 256, (n \div 65536) % 256,
            (n \div 256) % 256, n % 256>>

\* The loop test `i < count` of deserialize_fingerprints for a small i and a
\* count given as a bit pattern (counts of 2^31 and more exceed every i here).
U32Less(i, w) ==
    \/ w[1] >= 128
    \/ i < w[1] * 16777216 + w[2] * 65536 + w[3] * 256 + w[4]

\* reinterpret_cast<const uint8_t*>(&x): the four bytes of x in memory order.
ObjectBytes(h, w) ==
    IF h = "little" THEN <<w[4], w[3], w[2], w[1]>> ELSE w

\* A copy that takes the bytes in wire order whatever the host.
MemcpyWord_IgnoresHost(h, b) == <<b[1], b[2], b[3], b[4]>>

\* std::memcpy(&x, p, 4): the value whose memory image is the four bytes at p.
MemcpyWord(h, b) ==
    IF h = "little" THEN <<b[4], b[3], b[2], b[1]>> ELSE <<b[1], b[2], b[3], b[4]>>

\* The bytes the loop body of serialize_fingerprints appends for one record.
SerializeOne(h, fp) ==
    ObjectBytes(h, fp.hash_value) \o ObjectBytes(h, fp.time_offset_ms)
    \o ObjectBytes(h, fp.anchor_freq_hz) \o ObjectBytes(h, fp.target_freq_hz)
    \o ObjectBytes(h, fp.time_delta_ms)

RECURSIVE SerializeRecords(_, _)
SerializeRecords(h, fps) ==
    IF fps = <<>> THEN <<>>
    ELSE SerializeOne(h, Head(fps)) \o SerializeRecords(h, Tail(fps))

serialize_fingerprints(h, fps) ==
    ObjectBytes(h, U32(Len(fps))) \o SerializeRecords(h, fps)

\* The body of the read loop: the record at 0-based offset off.
ReadOne(h, bytes, off) ==
    [hash_value     |-> MemcpyWord(h, SubSeq(bytes, off + 1, off + 4)),
     time_offset_ms |-> MemcpyWord(h, SubSeq(bytes, off + 5, off + 8)),
     anchor_freq_hz |-> MemcpyWord(h, SubSeq(bytes, off + 9, off + 12)),
     target_freq_hz |-> MemcpyWord(h, SubSeq(bytes, off + 13, off + 16)),
     time_delta_ms  |-> MemcpyWord(h, SubSeq(bytes, off + 17, off + 20))]

Thrown(msg) == [ok |-> FALSE, error |-> msg, value |-> <<>>]
Returned(v) == [ok |-> TRUE, error |-> "", value |-> v]

TooSmallMsg  == "Data too small to contain fingerprint count"
TruncatedMsg == "Data truncated while reading fingerprints"

\* A bounds test that also rejects a record ending exactly at the end.
Overruns_OffByOne(off, bytes) == off + FingerprintSize >= Len(bytes)

\* offset + fingerprint_size > data.size()
Overruns(off, bytes) == off + FingerprintSize > Len(bytes)

\* for (uint32_t i = 0; i < count; ++i) { if (offset + size > data.size()) throw; ... }
RECURSIVE ReadLoop(_, _, _, _, _, _)
ReadLoop(h, bytes, count, i, off, acc) ==
    IF ~U32Less(i, count) THEN Returned(acc)
    ELSE IF Overruns(off, bytes) THEN Thrown(TruncatedMsg)
    ELSE ReadLoop(h, bytes, count, i + 1, off + FingerprintSize,
                  Append(acc, ReadOne(h, bytes, off)))

deserialize_fingerprints(h, bytes) ==
    IF Len(bytes) < HeaderSize THEN Thrown(TooSmallMsg)
    ELSE ReadLoop(h, bytes, MemcpyWord(h, SubSeq(bytes, 1, 4)), 0, HeaderSize, <<>>)

\* Fingerprint values of the model: the literal of the codec scenario
\* {0x01020304, 1000, 440.0f, 880.0f, 250} and a record of extreme patterns
\* {0xDEADBEEF, -2, 0.0f, NaN, INT_MIN}.
FpLiteral ==
    [hash_value |-> <<1, 2, 3, 4>>, time_offset_ms |-> <<0, 0, 3, 232>>,
     anchor_freq_hz |-> <<67, 220, 0, 0>>, target_freq_hz |-> <<68, 92, 0, 0>>,
     time_delta_ms |-> <<0, 0, 0, 250>>]
FpExtreme ==
    [hash_value |-> <<222, 173, 190, 239>>, time_offset_ms |-> <<255, 255, 255, 254>>,
     anchor_freq_hz |-> <<0, 0, 0, 0>>, target_freq_hz |-> <<127, 192, 0, 0>>,
     time_delta_ms |-> <<128, 0, 0, 0>>]
FingerprintValues == {FpLiteral, FpExtreme}

\* Headers of the byte strings handed to the decoder.
InputHeaders ==
    {<<0, 0, 0, 0>>, <<1, 0, 0, 0>>, <<2, 0, 0, 0>>, <<3, 0, 0, 0>>,
     <<0, 0, 0, 1>>, <<0, 1, 0, 0>>, <<255, 255, 255, 255>>}

MaxInputLen == HeaderSize + FingerprintSize * (MaxFingerprints + 1) + 1

\* A byte string of length k: header hb, then the records of d, then zeros.
InputBytes(hb, d, k) ==
    [n \in 1..k |-> IF n <= 4 THEN hb[n]
                    ELSE IF n <= Len(d) THEN d[n] ELSE 0]

NoResult == [ok |-> FALSE, error |-> "", value |-> <<>>]

CodecIdle ==
    /\ host = "little" /\ fingerprints = <<>> /\ data = <<>> /\ input = <<>>
    /\ decoded = NoResult /\ codec_pc = "off"

BatchIdle ==
    /\ audio_samples = <<>> /\ song_ids = <<>> /\ results = <<>>
    /\ batch_i = 0 /\ processed = 0 /\ batch_error = "" /\ batch_pc = "off"

PairsIdle ==
    /\ constellation = <<>> /\ max_time_delta = 0 /\ max_freq_delta = 0
    /\ sorted_peaks = <<>> /\ pair_i = 0 /\ landmark_pairs = <<>>
    /\ pairs_pc = "off"

PeaksIdle ==
    /\ spectrogram = <<>> /\ min_peak_distance = 0 /\ candidate_peaks = <<>>
    /\ nms_sorted_peaks = <<>> /\ detected = NoResult /\ peaks_pc = "off"

HashIdle ==
    /\ freq_quantization = 0 /\ time_quantization = 0 /\ gen_pairs = <<>>
    /\ gen_bins = <<>> /\ gen_fingerprints = <<>> /\ gen_pc = "off"

PrepIdle ==
    /\ pre_sample = <<>> /\ pre_result = NoResult /\ pre_pc = "off"

ResampleIdle ==
    /\ rs_input = <<>> /\ rs_input_rate = 0 /\ rs_target_rate = 0
    /\ rs_output = NoResult /\ rs_pc = "off"

StftIdle ==
    /\ fft_size = 0 /\ stft_len = 0 /\ stft_window = 0 /\ stft_hop = 0
    /\ stft_result = NoResult /\ stft_pc = "off"

PipelineIdle ==
    /\ pipe_sample = <<>> /\ pipe_result = NoResult /\ pipe_pc = "off"

ClientIdle == api = <<>> /\ observed = <<>>

RecorderIdle == recorder = <<>> /\ recorded = <<>>

ConfigIdle ==
    /\ generator = <<>> /\ detector = <<>> /\ config_call = <<>> /\ calls = 0

\* Every component but the one named is switched off.
IdleExcept(c) ==
    /\ c = "codec" \/ CodecIdle
    /\ c = "batch" \/ BatchIdle
    /\ c = "pairs" \/ PairsIdle
    /\ c = "peaks" \/ PeaksIdle
    /\ c = "hash" \/ HashIdle
    /\ c = "prep" \/ PrepIdle
    /\ c = "resample" \/ ResampleIdle
    /\ c = "stft" \/ StftIdle
    /\ c = "pipeline" \/ PipelineIdle
    /\ c = "client" \/ ClientIdle
    /\ c = "recorder" \/ RecorderIdle
    /\ c = "config" \/ ConfigIdle

InitCodec ==
    /\ host \in {"little", "big"}
    /\ fingerprints \in SeqsUpTo(FingerprintValues, MaxFingerprints)
    /\ data = <<>> /\ input = <<>> /\ decoded = NoResult
    /\ codec_pc = "start"
    /\ IdleExcept("codec")

\* A call of serialize_fingerprints(fingerprints).
Serialize ==
    /\ codec_pc = "start"
    /\ data' = serialize_fingerprints(host, fingerprints)
    /\ codec_pc' = "serialized"
    /\ UNCHANGED <<host, fingerprints, input, decoded>>
    /\ UNCHANGED notCodec

\* A call of deserialize_fingerprints on the bytes serialize returned.
DeserializeSerialized ==
    /\ codec_pc = "serialized"
    /\ input' = data
    /\ decoded' = deserialize_fingerprints(host, data)
    /\ codec_pc' = "roundtrip"
    /\ UNCHANGED <<host, fingerprints, data>>
    /\ UNCHANGED notCodec

\* A call of deserialize_fingerprints on bytes received from elsewhere.
DeserializeInput ==
    /\ codec_pc = "serialized"
    /\ \E hb \in InputHeaders, k \in 0..MaxInputLen :
          /\ input' = InputBytes(hb, data, k)
          /\ decoded' = deserialize_fingerprints(host, InputBytes(hb, data, k))
    /\ codec_pc' = "decoded"
    /\ UNCHANGED <<host, fingerprints, data>>
    /\ UNCHANGED notCodec

NextCodec == Serialize \/ DeserializeSerialized \/ DeserializeInput

SpecCodec == InitCodec /\ [][NextCodec]_vars

\* ------------------------------------------------------------------------
\* Batch driver
\* ------------------------------------------------------------------------
\* Bounds of the batch model.
MaxBatch == 2
MaxElapsedMs == 1

\* AudioPreprocessor::TARGET_SAMPLE_RATE
TARGET_SAMPLE_RATE == 11025
\* FFTProcessor fft_processor(2048) and compute_stft(data, 2048, 1024)
PipelineFftSize == 2048
PipelineWindowSize == 2048
PipelineHopSize == 1024

\* AudioSample(): the default-constructed, empty sample.  A sample is
\* modelled by the size of its data, its fields and the kind of signal it
\* holds; the numeric signal path is not computed.
DefaultSample ==
    [size |-> 0, sample_rate |-> 0, channels |-> 0, duration_ms |-> 0,
     content |-> "silence"]

\* AudioSample(data, sr, ch), for sr * ch > 0.
MakeSample(n, sr, ch, c) ==
    [size |-> n, sample_rate |-> sr, channels |-> ch,
     duration_ms |-> (n * 1000) \div (sr * ch), content |-> c]

\* The low 32 bits, as <<high, low>> halves, of (2^64 - k) / hop in size_t,
\* for 0 < k < 2^16 and 0 < hop < 2^15: the long division of the 16-bit
\* limbs 65535, 65535, 65535, 65536 - k by hop.
WrappedQuotient(k, hop) ==
    LET r1 == 65535 % hop
        r2 == (r1 * 65536 + 65535) % hop
        n3 == r2 * 65536 + 65535
        n4 == (n3 % hop) * 65536 + (65536 - k)
    IN  <<n3 \div hop, n4 \div hop>>

\* static_cast<int>(x) for the 32 bits x.
CastInt(x) ==
    IF x[1] >= 32768 THEN (x[1] - 65536) * 65536 + x[2] ELSE x[1] * 65536 + x[2]

\* A frame count that leaves out the frame at the start of the buffer.
StftNumFrames_NoFirstFrame(n, window, hop) ==
    IF n >= window THEN (n - window) \div hop
    ELSE CastInt(WrappedQuotient(window - n, hop))

\* (audio_data.size() - window_size) / hop_size computed in size_t, cast to
\* int, plus one.  For a buffer shorter than the window the subtraction
\* wraps around 2^64.
StftNumFrames(n, window, hop) ==
    IF n >= window THEN (n - window) \div hop + 1
    ELSE CastInt(WrappedQuotient(window - n, hop)) + 1

\* compute_stft as far as the shape of the spectrogram goes: time_frames,
\* frequency_bins and the sizes data and its rows are resized to, or the
\* exception.  A negative num_frames makes resize throw; a positive one is
\* taken to be allocated.
compute_stft(n, size, window, hop) ==
    IF n = 0 THEN Thrown("Audio data is empty")
    ELSE IF window > size THEN Thrown("Window size cannot exceed FFT size")
    ELSE IF hop <= 0 \/ hop > window THEN Thrown("Invalid hop size")
    ELSE IF StftNumFrames(n, window, hop) < 0 THEN Thrown("vector::resize")
    ELSE Returned([time_frames |-> StftNumFrames(n, window, hop),
                   frequency_bins |-> size \div 2 + 1,
                   rows |-> StftNumFrames(n, window, hop),
                   row_size |-> size \div 2 + 1])

\* ---- IEEE double arithmetic of resample_audio -------------------------
\* A positive double is modelled exactly, as <<bits, exp>>: the binary digits
\* of an integer, most significant first, times 2^exp.  Long numbers are
\* computed in limbs of LimbBits digits.
LimbBits == 12
LimbBase == 2^LimbBits

\* The number of significant bits of a double.
MantissaBits == 53

BitAt(b, k) == IF k >= 1 /\ k <= Len(b) THEN b[k] ELSE 0

\* The value of the LimbBits digits of b from position k on.
LimbAt(b, k) ==
    2048 * BitAt(b, k) + 1024 * BitAt(b, k + 1) + 512 * BitAt(b, k + 2)
    + 256 * BitAt(b, k + 3) + 128 * BitAt(b, k + 4) + 64 * BitAt(b, k + 5)
    + 32 * BitAt(b, k + 6) + 16 * BitAt(b, k + 7) + 8 * BitAt(b, k + 8)
    + 4 * BitAt(b, k + 9) + 2 * BitAt(b, k + 10) + BitAt(b, k + 11)

\* The digits b as limbs, most significant first.
BitsLimbs(b) ==
    LET pad == (LimbBits - (Len(b) % LimbBits)) % LimbBits
    IN  [i \in 1..((Len(b) + pad) \div LimbBits) |->
            LimbAt(b, LimbBits * (i - 1) + 1 - pad)]

\* The limbs as digits, without leading zeros.
LimbsBits(l) ==
    LET all == [j \in 1..(LimbBits * Len(l)) |->
                   (l[(j - 1) \div LimbBits + 1]
                       \div 2^(LimbBits - 1 - ((j - 1) % LimbBits))) % 2]
        ones == {j \in 1..Len(all) : all[j] = 1}
    IN  IF ones = {} THEN <<>>
        ELSE SubSeq(all, CHOOSE j \in ones : \A k \in ones : j <= k, Len(all))

\* The limbs of a number n >= 0.
RECURSIVE NatLimbs(_)
NatLimbs(n) ==
    IF n = 0 THEN <<>> ELSE Append(NatLimbs(n \div LimbBase), n % LimbBase)

\* The number the limbs stand for, when below 2^31.
RECURSIVE LimbsNat(_)
LimbsNat(l) ==
    IF l = <<>> THEN 0
    ELSE LimbBase * LimbsNat(SubSeq(l, 1, Len(l) - 1)) + l[Len(l)]

\* bits + 1: the last 0 becomes 1 and the ones after it 0.
IncBits(b) ==
    LET zeros == {k \in 1..Len(b) : b[k] = 0}
        last == IF zeros = {} THEN 0
                ELSE CHOOSE k \in zeros : \A j \in zeros : j <= k
    IN  IF last = 0 THEN <<1>> \o [k \in 1..Len(b) |-> 0]
        ELSE [k \in 1..Len(b) |-> IF k < last THEN b[k]
                                  ELSE IF k = last THEN 1 ELSE 0]

\* The double nearest to x, ties to even: the rounding of every operation.
RoundToDouble(x) ==
    IF Len(x[1]) <= MantissaBits THEN x
    ELSE LET keep == SubSeq(x[1], 1, MantissaBits)
             guard == x[1][MantissaBits + 1]
             sticky == \E k \in (MantissaBits + 2)..Len(x[1]) : x[1][k] = 1
             up == guard = 1 /\ (sticky \/ keep[MantissaBits] = 1)
         IN  <<IF up THEN IncBits(keep) ELSE keep,
               x[2] + Len(x[1]) - MantissaBits>>

\* k limbs of the expansion of rem / den to base LimbBase, for 0 <= rem < den.
RECURSIVE DivLimbs(_, _, _)
DivLimbs(rem, den, k) ==
    IF k = 0 THEN <<>>
    ELSE <<(rem * LimbBase) \div den>>
         \o DivLimbs((rem * LimbBase) % den, den, k - 1)

\* What is left of rem after those k limbs.
RECURSIVE DivRest(_, _, _)
DivRest(rem, den, k) ==
    IF k = 0 THEN rem ELSE DivRest((rem * LimbBase) % den, den, k - 1)

\* The least k with num < den * 2^k, for num >= den > 0.
RECURSIVE ShiftsBelow(_, _)
ShiftsBelow(num, den) ==
    IF num < den THEN 0 ELSE 1 + ShiftsBelow(num, 2 * den)

\* The least k with num * 2^k >= den, for num > 0.
RECURSIVE ShiftsToReach(_, _)
ShiftsToReach(num, den) ==
    IF num >= den THEN 0 ELSE 1 + ShiftsToReach(2 * num, den)

\* The limbs that hold the fraction digits of a quotient: enough for the
\* mantissa and a guard digit.
QuotientLimbs == 5

\* static_cast<double>(num) / static_cast<double>(den) for ints num, den > 0:
\* the quotient scaled into [1, 2), its leading 1, QuotientLimbs limbs of
\* fraction and a sticky digit, rounded to a double.
DoubleDiv(num, den) ==
    LET up == IF num >= den THEN ShiftsBelow(num, den) - 1 ELSE 0
        lowered == ShiftsToReach(num, den)
        N == num * 2^lowered
        D == den * 2^up
        fraction == DivLimbs(N - D, D, QuotientLimbs)
        all == [j \in 1..(LimbBits * QuotientLimbs) |->
                   (fraction[(j - 1) \div LimbBits + 1]
                       \div 2^(LimbBits - 1 - ((j - 1) % LimbBits))) % 2]
        sticky == IF DivRest(N - D, D, QuotientLimbs) = 0 THEN 0 ELSE 1
    IN  RoundToDouble(<<<<1>> \o all \o <<sticky>>,
                        up - lowered - (LimbBits * QuotientLimbs + 1)>>)

\* limbs * n + carry, for a small n.
RECURSIVE MulLimbs(_, _, _)
MulLimbs(l, n, carry) ==
    IF l = <<>> THEN NatLimbs(carry)
    ELSE LET v == l[Len(l)] * n + carry
         IN  Append(MulLimbs(SubSeq(l, 1, Len(l) - 1), n, v \div LimbBase),
                    v % LimbBase)

\* n * x for a size n >= 1 (exactly a double) and a double x.
DoubleTimesSize(n, x) ==
    RoundToDouble(<<LimbsBits(MulLimbs(BitsLimbs(x[1]), n, 0)), x[2]>>)

\* static_cast<size_t>(x) for a double x below 2^31.
DoubleToSize(x) ==
    IF x[2] >= 0 THEN LimbsNat(BitsLimbs(x[1])) * 2^(x[2])
    ELSE IF 0 - x[2] >= Len(x[1]) THEN 0
    ELSE LimbsNat(BitsLimbs(SubSeq(x[1], 1, Len(x[1]) + x[2])))

\* ratio and output_size of resample_audio.
ResampleOutputSize(n, input_rate, target_rate) ==
    DoubleToSize(DoubleTimesSize(n, DoubleDiv(target_rate, input_rate)))

\* floor(static_cast<double>(i) / ratio); the quotient is taken exactly, its
\* distance from fl(i / ratio) being too small to move the floor across
\* input_data.size().
SourceIndex(i, input_rate, target_rate) == (i * input_rate) \div target_rate

\* The first i whose index1 is not below input_data.size(): index1 grows with
\* i, and floor(i * input_rate / target_rate) >= n exactly when
\* i * input_rate >= n * target_rate.
FirstPastEnd(n, input_rate, target_rate) ==
    (n * target_rate + input_rate - 1) \div input_rate

\* The number of samples the interpolation loop pushes: it runs i from 0 to
\* output_size and leaves at the first index1 >= input_data.size().
ResampleLoopCount(n, input_rate, target_rate) ==
    Min(ResampleOutputSize(n, input_rate, target_rate),
        FirstPastEnd(n, input_rate, target_rate))

\* The size of the buffer resample_audio returns, or its exception.
resample_audio(n, input_rate, target_rate) ==
    IF input_rate <= 0 \/ target_rate <= 0 THEN Thrown("Sample rates must be positive")
    ELSE IF n = 0 THEN Returned(0)
    ELSE IF input_rate = target_rate THEN Returned(n)
    ELSE Returned(ResampleLoopCount(n, input_rate, target_rate))

\* The size of the buffer stereo_to_mono returns, or its exception.
stereo_to_mono(n) ==
    IF n % 2 # 0 THEN Thrown("Stereo data size must be even")
    ELSE Returned(n \div 2)

\* The size of the canonical buffer, or the exception.
preprocess_for_fingerprinting(s) ==
    IF s.size = 0 THEN Thrown("Input audio sample is empty")
    ELSE IF s.channels = 2 /\ ~stereo_to_mono(s.size).ok THEN stereo_to_mono(s.size)
    ELSE IF s.channels > 2 THEN Thrown("Only mono and stereo audio are supported")
    ELSE LET mono == IF s.channels = 2 THEN stereo_to_mono(s.size).value ELSE s.size
         IN  IF s.sample_rate # TARGET_SAMPLE_RATE
             THEN resample_audio(mono, s.sample_rate, TARGET_SAMPLE_RATE)
             ELSE Returned(mono)

\* ------------------------------------------------------------------------
\* Landmark pairer
\* ------------------------------------------------------------------------
\* Bounds of the pairer model.
MaxPeaks == 3
MaxFrame == 3

\* The frequency bins of the peaks and the gates the pairer is called with.
BinValues == {0, 1}
TimeGateValues == {0, 1, 2, 3}
FreqGateValues == {0, 1}

\* time_seconds is kept in units of 1/TimeScale ms, so that a time
\* difference need not be a whole number of milliseconds.
TimeScale == 2
\* spectrogram.time_resolution, in those units per frame (1.5 ms).
TimeResolution == 3
\* spectrogram.freq_resolution, in Hz per bin.
FreqResolution == 1

Abs(x) == IF x < 0 THEN 0 - x ELSE x

\* static_cast<int>(x / d): truncation toward zero.
TruncDiv(x, d) == IF x >= 0 THEN x \div d ELSE 0 - ((0 - x) \div d)

\* SpectralPeak(t, f, mag, 0, 0) passed through convert_to_physical_units.
convert_to_physical_units(t, f, mag) ==
    [time_frame |-> t, frequency_bin |-> f, magnitude |-> mag,
     frequency_hz |-> f * FreqResolution, time_seconds |-> t * TimeResolution]

\* LandmarkPair(a, t)
LandmarkPair(a, t) ==
    [anchor |-> a, target |-> t,
     time_delta_ms |-> TruncDiv(t.time_seconds - a.time_seconds, TimeScale),
     freq_delta_hz |-> t.frequency_hz - a.frequency_hz]

\* The comparator of the sort: a.time_seconds < b.time_seconds.
TimeLess(a, b) == a.time_seconds < b.time_seconds

\* A pairer that scans the peaks in the order they are stored.
IsSortedByTime_Unsorted(s) == TRUE

\* What std::sort guarantees of its result under the comparator: no element
\* is ordered before an element that precedes it.
IsSortedByTime(s) ==
    \A m, n \in 1..Len(s) : m < n => ~TimeLess(s[n], s[m])

\* The rearrangements of c: c read through every permutation of its indices.
Rearrangements(c) ==
    {[m \in 1..Len(c) |-> c[f[m]]] :
        f \in {g \in [1..Len(c) -> 1..Len(c)] :
                  \A m, n \in 1..Len(c) : m # n => g[m] # g[n]}}

\* std::sort(sorted_peaks.begin(), sorted_peaks.end(), comparator): some
\* rearrangement in comparator order; the order of equal times is unspecified.
SortOutcomes(c) == {s \in Rearrangements(c) : IsSortedByTime(s)}

\* A time gate that already closes at exactly max_time_delta.
TimeGateExceeded_Inclusive(diff, max_dt) == diff >= max_dt * TimeScale

\* time_diff_ms > static_cast<float>(max_time_delta), on a difference in units.
TimeGateExceeded(diff, max_dt) == diff > max_dt * TimeScale

\* freq_diff <= max_freq_delta
FreqGatePassed(a, t, max_df) == Abs(t.frequency_hz - a.frequency_hz) <= max_df

\* for (size_t j = i + 1; j < sorted_peaks.size(); ++j) { ... }, 0-based i, j.
RECURSIVE InnerScan(_, _, _, _, _, _)
InnerScan(s, i, j, max_dt, max_df, acc) ==
    IF j >= Len(s) THEN acc
    ELSE IF TimeGateExceeded(s[j + 1].time_seconds - s[i + 1].time_seconds, max_dt)
         THEN acc
    ELSE IF FreqGatePassed(s[i + 1], s[j + 1], max_df)
         THEN InnerScan(s, i, j + 1, max_dt, max_df,
                        Append(acc, LandmarkPair(s[i + 1], s[j + 1])))
    ELSE InnerScan(s, i, j + 1, max_dt, max_df, acc)

PeakValues ==
    {convert_to_physical_units(t, f, 1) : t \in 0..MaxFrame, f \in BinValues}

InitPairs ==
    /\ constellation \in SeqsUpTo(PeakValues, MaxPeaks)
    /\ max_time_delta \in TimeGateValues
    /\ max_freq_delta \in FreqGateValues
    /\ sorted_peaks = <<>> /\ pair_i = 0 /\ landmark_pairs = <<>>
    /\ pairs_pc = "start"
    /\ IdleExcept("pairs")

\* Entry of extract_landmark_pairs: the empty case, else copy and sort.
ExtractCall ==
    /\ pairs_pc = "start"
    /\ IF constellation = <<>>
       THEN /\ pairs_pc' = "returned"
            /\ sorted_peaks' = <<>>
       ELSE /\ pairs_pc' = "scan"
            /\ sorted_peaks' \in SortOutcomes(constellation)
    /\ UNCHANGED <<constellation, max_time_delta, max_freq_delta, pair_i, landmark_pairs>>
    /\ UNCHANGED notPairs

\* One iteration of the outer loop: anchor i and all its targets.
ScanAnchor ==
    /\ pairs_pc = "scan"
    /\ pair_i < Len(sorted_peaks)
    /\ landmark_pairs' = InnerScan(sorted_peaks, pair_i, pair_i + 1,
                                   max_time_delta, max_freq_delta, landmark_pairs)
    /\ pair_i' = pair_i + 1
    /\ UNCHANGED <<constellation, max_time_delta, max_freq_delta, sorted_peaks, pairs_pc>>
    /\ UNCHANGED notPairs

\* The outer loop is over: return landmark_pairs.
ExtractReturn ==
    /\ pairs_pc = "scan"
    /\ pair_i >= Len(sorted_peaks)
    /\ pairs_pc' = "returned"
    /\ UNCHANGED <<constellation, max_time_delta, max_freq_delta, sorted_peaks,
                   pair_i, landmark_pairs>>
    /\ UNCHANGED notPairs

NextPairs == ExtractCall \/ ScanAnchor \/ ExtractReturn

SpecPairs == InitPairs /\ [][NextPairs]_vars

\* ------------------------------------------------------------------------
\* Peak detector
\* ------------------------------------------------------------------------
\* Bound of the detector model: the number of cells that rise above the
\* background of a spectrogram.
MaxBumps == 3

\* The spectrograms of the model: <<time_frames, frequency_bins>>, the
\* magnitude of the background and of the raised cells, in units of 0.01.
SpectrogramShapes == {<<0, 0>>, <<5, 3>>, <<3, 5>>}
BackgroundValues == {0, 1}
BumpValues == {2, 3}
MinPeakDistanceValues == {2, 3}

\* Defaults of PeakDetector(3, 0.7f, 0.01f): the magnitude gate in units of
\* 0.01 and the adaptive factor as the fraction 7/10.
DefaultMinPeakDistance == 3
MinMagnitudeThreshold == 1
AdaptiveFactorNum == 7
AdaptiveFactorDen == 10
\* Default arguments neighborhood_size = 3 and region_size = 10.
NeighborhoodSize == 3
RegionSize == 10

Cells(T, F) == (0..(T - 1)) \X (0..(F - 1))

\* A Spectrogram: data[<<t, f>>] stands for data[t][f].
MakeSpectrogram(T, F, d) ==
    [time_frames |-> T, frequency_bins |-> F, data |-> d]

\* t < 0 || t >= time_frames || f < 0 || f >= frequency_bins, negated.
InBounds(sp, t, f) ==
    /\ t >= 0 /\ t < sp.time_frames
    /\ f >= 0 /\ f < sp.frequency_bins

\* A neighbourhood test that lets a cell tie with its neighbours.
is_local_maximum_PlateauAccepted(sp, t, f) ==
    LET half_size == NeighborhoodSize \div 2
    IN  \A dt, df \in (0 - half_size)..half_size :
            \/ dt = 0 /\ df = 0
            \/ ~InBounds(sp, t + dt, f + df)
            \/ ~(sp.data[<<t + dt, f + df>>] > sp.data[<<t, f>>])

\* No neighbour in bounds is greater than or equal to the centre.
is_local_maximum(sp, t, f) ==
    LET half_size == NeighborhoodSize \div 2
    IN  \A dt, df \in (0 - half_size)..half_size :
            \/ dt = 0 /\ df = 0
            \/ ~InBounds(sp, t + dt, f + df)
            \/ ~(sp.data[<<t + dt, f + df>>] >= sp.data[<<t, f>>])

\* The cells of the region the adaptive threshold averages over.
RegionCells(sp, t, f) ==
    LET half_size == RegionSize \div 2
    IN  {c \in ((t - half_size)..(t + half_size))
                 \X ((f - half_size)..(f + half_size)) : InBounds(sp, c[1], c[2])}

RECURSIVE SumOver(_, _)
SumOver(S, d) ==
    IF S = {} THEN 0
    ELSE LET c == CHOOSE x \in S : TRUE
         IN  d[c] + SumOver(S \ {c}, d)

\* max(mean * (1 + adaptive_factor_), min_magnitude_threshold_) as the
\* fraction <<numerator, denominator>>.
calculate_adaptive_threshold(sp, t, f) ==
    LET region == RegionCells(sp, t, f)
        count == Cardinality(region)
        sum == SumOver(region, sp.data)
        num == sum * (AdaptiveFactorDen + AdaptiveFactorNum)
        den == count * AdaptiveFactorDen
    IN  IF count = 0 THEN <<MinMagnitudeThreshold, 1>>
        ELSE IF num >= MinMagnitudeThreshold * den THEN <<num, den>>
        ELSE <<MinMagnitudeThreshold, 1>>

\* The tests of the scan body: the cell becomes a candidate peak.
IsCandidate(sp, t, f) ==
    /\ ~(sp.data[<<t, f>>] < MinMagnitudeThreshold)
    /\ is_local_maximum(sp, t, f)
    /\ LET adaptive_threshold == calculate_adaptive_threshold(sp, t, f)
       IN  sp.data[<<t, f>>] * adaptive_threshold[2] >= adaptive_threshold[1]

\* The cells the two loops visit: t in [1, time_frames - 1), f likewise.
ScannedCells(sp) ==
    (1..(sp.time_frames - 2)) \X (1..(sp.frequency_bins - 2))

\* The cells of S as the scan meets them: by frame, then by bin.
RECURSIVE InScanOrder(_)
InScanOrder(S) ==
    IF S = {} THEN <<>>
    ELSE LET c == CHOOSE x \in S : \A y \in S :
                      x[1] < y[1] \/ (x[1] = y[1] /\ x[2] <= y[2])
         IN  <<c>> \o InScanOrder(S \ {c})

\* candidate_peaks when the scan is over.
ScanCandidates(sp) ==
    LET found == InScanOrder({c \in ScannedCells(sp) : IsCandidate(sp, c[1], c[2])})
    IN  [k \in 1..Len(found) |->
            convert_to_physical_units(found[k][1], found[k][2], sp.data[found[k]])]

\* The comparator of the sort: a.magnitude > b.magnitude.
MagnitudeGreater(a, b) == a.magnitude > b.magnitude

\* A sort that puts the weakest peak first.
IsSortedByMagnitude_Ascending(s) ==
    \A m, n \in 1..Len(s) : m < n => ~MagnitudeGreater(s[m], s[n])

\* The postcondition of the sort: no later element compares before an
\* earlier one.
IsSortedByMagnitude(s) ==
    \A m, n \in 1..Len(s) : m < n => ~MagnitudeGreater(s[n], s[m])

\* std::sort by magnitude, descending; the order of equal magnitudes is
\* unspecified.
MagnitudeSortOutcomes(c) == {s \in Rearrangements(c) : IsSortedByMagnitude(s)}

\* A distance test that compares the squared distance with the distance.
TooClose_NoSqrt(peak, selected_peak, min_d) ==
    LET time_diff == Abs(peak.time_frame - selected_peak.time_frame)
        freq_diff == Abs(peak.frequency_bin - selected_peak.frequency_bin)
    IN  time_diff * time_diff + freq_diff * freq_diff < min_d

\* sqrt(float(time_diff^2 + freq_diff^2)) < float(min_peak_distance_), which
\* for whole numbers is the comparison of the squares.
TooClose(peak, selected_peak, min_d) ==
    LET time_diff == Abs(peak.time_frame - selected_peak.time_frame)
        freq_diff == Abs(peak.frequency_bin - selected_peak.frequency_bin)
    IN  time_diff * time_diff + freq_diff * freq_diff < min_d * min_d

\* for (peak : sorted_peaks) { too_close ...; if (!too_close) push_back }
RECURSIVE FilterLoop(_, _, _, _)
FilterLoop(s, k, min_d, filtered_peaks) ==
    IF k > Len(s) THEN filtered_peaks
    ELSE IF \E m \in 1..Len(filtered_peaks) : TooClose(s[k], filtered_peaks[m], min_d)
         THEN FilterLoop(s, k + 1, min_d, filtered_peaks)
    ELSE FilterLoop(s, k + 1, min_d, Append(filtered_peaks, s[k]))

\* The vectors filter_nearby_peaks may return, one for each outcome of the sort.
filter_nearby_peaks(peaks, min_d) ==
    IF peaks = <<>> THEN {<<>>}
    ELSE {FilterLoop(s, 1, min_d, <<>>) : s \in MagnitudeSortOutcomes(peaks)}

\* The outcomes of detect_peaks: the peaks of the constellation, or the throw.
detect_peaks(sp, min_d) ==
    IF sp.time_frames = 0 THEN {Thrown("Spectrogram is empty")}
    ELSE {Returned(fp) : fp \in filter_nearby_peaks(ScanCandidates(sp), min_d)}

\* The cells raised above the background: at most MaxBumps of them.
BumpSets(T, F) == {S \in SUBSET Cells(T, F) : Cardinality(S) <= MaxBumps}

InitPeaks ==
    /\ \E shape \in SpectrogramShapes, bg \in BackgroundValues :
          \E S \in BumpSets(shape[1], shape[2]) :
              \E b \in [S -> BumpValues] :
                  spectrogram = MakeSpectrogram(shape[1], shape[2],
                      [c \in Cells(shape[1], shape[2]) |->
                          IF c \in S THEN b[c] ELSE bg])
    /\ min_peak_distance \in MinPeakDistanceValues
    /\ candidate_peaks = <<>> /\ nms_sorted_peaks = <<>>
    /\ detected = NoResult /\ peaks_pc = "start"
    /\ IdleExcept("peaks")

\* Entry of detect_peaks and the scan for local maxima.
DetectScan ==
    /\ peaks_pc = "start"
    /\ IF spectrogram.time_frames = 0
       THEN /\ detected' = Thrown("Spectrogram is empty")
            /\ candidate_peaks' = <<>>
            /\ peaks_pc' = "threw"
       ELSE /\ detected' = detected
            /\ candidate_peaks' = ScanCandidates(spectrogram)
            /\ peaks_pc' = "filter"
    /\ UNCHANGED <<spectrogram, min_peak_distance, nms_sorted_peaks>>
    /\ UNCHANGED notPeaks

\* filter_nearby_peaks: the empty case, else copy and sort by magnitude.
FilterSort ==
    /\ peaks_pc = "filter"
    /\ IF candidate_peaks = <<>>
       THEN /\ nms_sorted_peaks' = <<>>
            /\ detected' = Returned(<<>>)
            /\ peaks_pc' = "returned"
       ELSE /\ nms_sorted_peaks' \in MagnitudeSortOutcomes(candidate_peaks)
            /\ detected' = detected
            /\ peaks_pc' = "select"
    /\ UNCHANGED <<spectrogram, min_peak_distance, candidate_peaks>>
    /\ UNCHANGED notPeaks

\* The greedy selection, and the copy of its result into the constellation.
FilterSelect ==
    /\ peaks_pc = "select"
    /\ detected' = Returned(FilterLoop(nms_sorted_peaks, 1, min_peak_distance, <<>>))
    /\ peaks_pc' = "returned"
    /\ UNCHANGED <<spectrogram, min_peak_distance, candidate_peaks, nms_sorted_peaks>>
    /\ UNCHANGED notPeaks

NextPeaks == DetectScan \/ FilterSort \/ FilterSelect

SpecPeaks == InitPeaks /\ [][NextPeaks]_vars

\* ------------------------------------------------------------------------
\* Hash generator
\* ------------------------------------------------------------------------
\* Bound of the hash generator model: the number of landmark pairs.
MaxGenPairs == 2

\* A uint32_t as its two 16-bit halves, <<high, low>>.
Halves(w) == <<256 * w[1] + w[2], 256 * w[3] + w[4]>>

\* The halves as the 4-tuple of bytes the codec stores.
HalvesWord(x) == <<x[1] \div 256, x[1] % 256, x[2] \div 256, x[2] % 256>>

\* static_cast<uint32_t>(v) for a uint16_t v.
Widen16(v) == <<0, v>>

\* x + y in uint32_t.
Add32(x, y) ==
    <<(x[1] + y[1] + (x[2] + y[2]) \div 65536) % 65536, (x[2] + y[2]) % 65536>>

\* a ^ b on 16-bit values, bit by bit.
RECURSIVE Xor16(_, _)
Xor16(a, b) ==
    IF a = 0 THEN b
    ELSE IF b = 0 THEN a
    ELSE ((a + b) % 2) + 2 * Xor16(a \div 2, b \div 2)

\* x ^ y
Xor32(x, y) == <<Xor16(x[1], y[1]), Xor16(x[2], y[2])>>

\* x << k on uint32_t, for 0 < k < 16.
Shl32(x, k) ==
    <<(x[1] * 2^k + x[2] \div 2^(16 - k)) % 65536, (x[2] * 2^k) % 65536>>

\* x >> k on uint32_t (a logical shift), for 0 < k < 32.
Shr32(x, k) ==
    IF k >= 16 THEN <<0, x[1] \div 2^(k - 16)>>
    ELSE <<x[1] \div 2^k, x[2] \div 2^k + (x[1] % 2^k) * 2^(16 - k)>>

\* The six statements hash_function applies to each of a, b and c.
HashSteps(v) ==
    LET v1 == Add32(Add32(v, Halves(<<126, 213, 93, 22>>)), Shl32(v, 12))
        v2 == Xor32(Xor32(v1, Halves(<<199, 97, 194, 60>>)), Shr32(v1, 19))
        v3 == Add32(Add32(v2, Halves(<<22, 86, 103, 177>>)), Shl32(v2, 5))
        v4 == Xor32(Add32(v3, Halves(<<211, 162, 100, 108>>)), Shl32(v3, 9))
        v5 == Add32(Add32(v4, Halves(<<253, 112, 70, 197>>)), Shl32(v4, 3))
        v6 == Xor32(Xor32(v5, Halves(<<181, 90, 79, 9>>)), Shr32(v5, 16))
    IN  v6

\* return a ^ b ^ c, after the steps.
hash_function(a, b, c) ==
    Xor32(Xor32(HashSteps(a), HashSteps(b)), HashSteps(c))

combine_to_hash(anchor_freq, target_freq, time_delta) ==
    hash_function(Widen16(anchor_freq), Widen16(target_freq), Widen16(time_delta))

\* static_cast<uint16_t>(q) for an int q >= 0: q modulo 2^16.
CastU16(q) == q % 65536

\* quantize_time: the cast has already reduced bin below 2^16, so std::min
\* with 65535 returns bin.
quantize_time(time_ms, tq) ==
    IF time_ms < 0 THEN 0
    ELSE Min(CastU16(time_ms \div tq), 65535)

\* quantize_frequency, for a frequency in whole Hz: the bins it may return.
\* The conversion of a float of 65536.0 or more to uint16_t is undefined; the
\* builds reduce it modulo 2^16, saturate it or yield 0.
quantize_frequency(frequency, fq) ==
    IF frequency < 0 THEN {0}
    ELSE IF frequency \div fq < 65536 THEN {Min(frequency \div fq, 65535)}
    ELSE {CastU16(frequency \div fq), 65535, 0}

\* The triples of bins generate_hash may compute for a pair.
HashBins(pair, fq, tq) ==
    {[anchor_freq_bin |-> a, target_freq_bin |-> t,
      time_delta_bin |-> quantize_time(pair.time_delta_ms, tq)] :
        a \in quantize_frequency(pair.anchor.frequency_hz, fq),
        t \in quantize_frequency(pair.target.frequency_hz, fq)}

\* generate_hash, given the bins.
generate_hash(bins) ==
    HalvesWord(combine_to_hash(bins.anchor_freq_bin, bins.target_freq_bin,
                             bins.time_delta_bin))

\* static_cast<int>(pair.anchor.time_seconds * 1000.0f), on a time in units.
TimeOffsetMs(time_seconds) == TruncDiv(time_seconds, TimeScale)

\* Fingerprint(hash_value, time_offset_ms, anchor.frequency_hz,
\* target.frequency_hz, time_delta_ms); the numeric fields are kept as numbers.
MakeFingerprint(hash, pair) ==
    [hash_value |-> hash,
     time_offset_ms |-> TimeOffsetMs(pair.anchor.time_seconds),
     anchor_freq_hz |-> pair.anchor.frequency_hz,
     target_freq_hz |-> pair.target.frequency_hz,
     time_delta_ms |-> pair.time_delta_ms]

\* The landmark pairs handed to generate_fingerprints: <<frame, bin>> of the
\* anchor and of the target.  Frame 43691 lies 65536 ms after frame 0 and
\* bin 65536 is 65536 Hz.
GenPairShapes ==
    {<<0, 44, 1, 88>>, <<0, 88, 1, 44>>, <<1, 44, 3, 88>>, <<1, 45, 3, 89>>,
     <<2, 44, 2, 44>>, <<3, 20, 1, 0 - 5>>, <<0, 7, 43691, 7>>,
     <<1, 65536, 2, 70000>>}

GenPairValues ==
    {LandmarkPair(convert_to_physical_units(p[1], p[2], 1),
                  convert_to_physical_units(p[3], p[4], 1)) : p \in GenPairShapes}

FreqQuantizationValues == {1, 10}
TimeQuantizationValues == {1, 50}

InitHash ==
    /\ freq_quantization \in FreqQuantizationValues
    /\ time_quantization \in TimeQuantizationValues
    /\ gen_pairs \in SeqsUpTo(GenPairValues, MaxGenPairs)
    /\ gen_bins = <<>> /\ gen_fingerprints = <<>>
    /\ gen_pc = "loop"
    /\ IdleExcept("hash")

\* One iteration of the loop of generate_fingerprints.
GenerateOne ==
    /\ gen_pc = "loop"
    /\ Len(gen_fingerprints) < Len(gen_pairs)
    /\ LET pair == gen_pairs[Len(gen_fingerprints) + 1]
       IN  \E bins \in HashBins(pair, freq_quantization, time_quantization) :
              /\ gen_bins' = Append(gen_bins, bins)
              /\ gen_fingerprints' =
                    Append(gen_fingerprints, MakeFingerprint(generate_hash(bins), pair))
    /\ UNCHANGED <<freq_quantization, time_quantization, gen_pairs, gen_pc>>
    /\ UNCHANGED notHash

\* The loop is over: return fingerprints.
GenerateReturn ==
    /\ gen_pc = "loop"
    /\ Len(gen_fingerprints) >= Len(gen_pairs)
    /\ gen_pc' = "returned"
    /\ UNCHANGED <<freq_quantization, time_quantization, gen_pairs, gen_bins,
                   gen_fingerprints>>
    /\ UNCHANGED notHash

NextHash == GenerateOne \/ GenerateReturn

SpecHash == InitHash /\ [][NextHash]_vars

\* ------------------------------------------------------------------------
\* Preprocessor, on the sample values
\* ------------------------------------------------------------------------
\* Bound of the preprocessor model: the length of the input buffer.
MaxSamples == 3

\* A float sample is modelled by the fraction <<n, d>> in lowest terms,
\* d > 0; the rounding of float arithmetic is not modelled.
RECURSIVE Gcd(_, _)
Gcd(a, b) == IF b = 0 THEN a ELSE Gcd(b, a % b)

Frac(n, d) ==
    LET g == Gcd(Abs(n), d) IN <<TruncDiv(n, g), d \div g>>

FracAdd(x, y) == Frac(x[1] * y[2] + y[1] * x[2], x[2] * y[2])
FracSub(x, y) == Frac(x[1] * y[2] - y[1] * x[2], x[2] * y[2])
FracMul(x, y) == Frac(x[1] * y[1], x[2] * y[2])
FracAbs(x) == <<Abs(x[1]), x[2]>>
FracLess(x, y) == x[1] * y[2] < y[1] * x[2]

\* x < 1e-10f, for a fraction x >= 0 with a denominator below 2^31.
BelowSilence(x) == x[1] <= ((x[2] - 1) \div 100000) \div 100000

\* The data-level counterpart of stereo_to_mono: (left + right) * 0.5f.
stereo_to_mono_data(stereo_data) ==
    IF Len(stereo_data) % 2 # 0 THEN Thrown("Stereo data size must be even")
    ELSE Returned([i \in 1..(Len(stereo_data) \div 2) |->
             FracMul(FracAdd(stereo_data[2 * i - 1], stereo_data[2 * i]), <<1, 2>>)])

\* A search for the peak that forgets std::abs.
MaxAbs_Signed(x) ==
    LET top == CHOOSE m \in 1..Len(x) : \A k \in 1..Len(x) : ~FracLess(x[m], x[k])
    IN  IF FracLess(x[top], <<0, 1>>) THEN <<0, 1>> ELSE x[top]

\* max_abs when the first loop of normalize_audio is over, for non-empty x.
MaxAbs(x) ==
    LET top == CHOOSE m \in 1..Len(x) :
                   \A k \in 1..Len(x) : ~FracLess(FracAbs(x[m]), FracAbs(x[k]))
    IN  FracAbs(x[top])

\* A normalisation that multiplies by the peak instead of dividing by it.
normalize_audio_ScaledByPeak(x) ==
    IF x = <<>> THEN <<>>
    ELSE IF BelowSilence(MaxAbs(x)) THEN x
    ELSE [i \in 1..Len(x) |-> FracMul(x[i], MaxAbs(x))]

\* normalize_audio: scale = 1.0f / max_abs unless max_abs < 1e-10f.
normalize_audio(x) ==
    IF x = <<>> THEN <<>>
    ELSE IF BelowSilence(MaxAbs(x)) THEN x
    ELSE LET max_abs == MaxAbs(x)
             scale == Frac(max_abs[2], max_abs[1])
         IN  [i \in 1..Len(x) |-> FracMul(x[i], scale)]

\* float interpolated = sample1 + static_cast<float>(fraction) * (sample2 - sample1)
\* for the 0-based output index i.
Interpolated(input_data, i, input_rate, target_rate) ==
    LET index1 == SourceIndex(i, input_rate, target_rate)
        index2 == Min(index1 + 1, Len(input_data) - 1)
        fraction == Frac((i * input_rate) % target_rate, target_rate)
        sample1 == input_data[index1 + 1]
        sample2 == input_data[index2 + 1]
    IN  FracAdd(sample1, FracMul(fraction, FracSub(sample2, sample1)))

\* The data-level counterpart of resample_audio: the vector it returns.
resample_audio_data(input_data, input_rate, target_rate) ==
    IF input_rate <= 0 \/ target_rate <= 0 THEN Thrown("Sample rates must be positive")
    ELSE IF input_data = <<>> THEN Returned(<<>>)
    ELSE IF input_rate = target_rate THEN Returned(input_data)
    ELSE Returned([k \in 1..ResampleLoopCount(Len(input_data), input_rate, target_rate)
                      |-> Interpolated(input_data, k - 1, input_rate, target_rate)])

\* AudioSample(data, sr, 1) as preprocess_for_fingerprinting builds it.
CanonicalSample(d, sr) ==
    [data |-> d, sample_rate |-> sr, channels |-> 1,
     duration_ms |-> (Len(d) * 1000) \div sr]

\* The data-level counterpart of preprocess_for_fingerprinting.
preprocess_data(sample) ==
    IF sample.data = <<>> THEN Thrown("Input audio sample is empty")
    ELSE LET mono == IF sample.channels = 2 THEN stereo_to_mono_data(sample.data)
                     ELSE Returned(sample.data)
             rated == IF sample.sample_rate # TARGET_SAMPLE_RATE
                      THEN resample_audio_data(mono.value, sample.sample_rate,
                                               TARGET_SAMPLE_RATE)
                      ELSE mono
         IN  IF ~mono.ok THEN mono
             ELSE IF sample.channels > 2
                  THEN Thrown("Only mono and stereo audio are supported")
             ELSE IF ~rated.ok THEN rated
             ELSE Returned(CanonicalSample(normalize_audio(rated.value),
                                           TARGET_SAMPLE_RATE))

\* The sample values, sample rates and channel counts of the model.
SampleLevels == {<<0 - 1, 1>>, <<0, 1>>, <<1, 2>>, <<3, 2>>}
SampleRateValues == {0, 3675, 11025, 22050}
ChannelValues == {1, 2, 3}

InitPrep ==
    /\ \E d \in SeqsUpTo(SampleLevels, MaxSamples), sr \in SampleRateValues,
          ch \in ChannelValues :
          pre_sample = [data |-> d, sample_rate |-> sr, channels |-> ch]
    /\ pre_result = NoResult
    /\ pre_pc = "start"
    /\ IdleExcept("prep")

\* A call of preprocess_for_fingerprinting(pre_sample).
Preprocess ==
    /\ pre_pc = "start"
    /\ pre_result' = preprocess_data(pre_sample)
    /\ pre_pc' = "returned"
    /\ UNCHANGED pre_sample
    /\ UNCHANGED notPrep

NextPrep == Preprocess

SpecPrep == InitPrep /\ [][NextPrep]_vars

\* Bound of the resampler model: the length of the input buffer.
MaxResampleLen == 11

\* The rates the resampler is called with.
ResampleRateValues == {0 - 1, 0, 1, 2, 3, 11, 15, 22}

\* A buffer of length n that walks through the sample values -1, 0, 1.
RampBuffer(n) == [k \in 1..n |-> <<(k % 3) - 1, 1>>]

InitResample ==
    /\ \E n \in 0..MaxResampleLen : rs_input = RampBuffer(n)
    /\ rs_input_rate \in ResampleRateValues
    /\ rs_target_rate \in ResampleRateValues
    /\ rs_output = NoResult
    /\ rs_pc = "start"
    /\ IdleExcept("resample")

\* A call of resample_audio(rs_input, rs_input_rate, rs_target_rate).
Resample ==
    /\ rs_pc = "start"
    /\ rs_output' = resample_audio_data(rs_input, rs_input_rate, rs_target_rate)
    /\ rs_pc' = "returned"
    /\ UNCHANGED <<rs_input, rs_input_rate, rs_target_rate>>
    /\ UNCHANGED notResample

NextResample == Resample

SpecResample == InitResample /\ [][NextResample]_vars

\* ------------------------------------------------------------------------
\* Short-time Fourier transform
\* ------------------------------------------------------------------------
\* Bound of the transform model: the length of the buffer.
MaxStftLen == 10

\* The FFT sizes, window sizes and hop sizes the transform is called with.
FftSizeValues == {4, 8}
WindowSizeValues == {1, 2, 3, 4, 6, 8, 9}
HopSizeValues == {0, 1, 2, 3, 4, 5, 8, 9}

InitStft ==
    /\ fft_size \in FftSizeValues
    /\ stft_len \in 0..MaxStftLen
    /\ stft_window \in WindowSizeValues
    /\ stft_hop \in HopSizeValues
    /\ stft_result = NoResult
    /\ stft_pc = "start"
    /\ IdleExcept("stft")

\* A call of compute_stft(audio_data, stft_window, stft_hop).
ComputeStft ==
    /\ stft_pc = "start"
    /\ stft_result' = compute_stft(stft_len, fft_size, stft_window, stft_hop)
    /\ stft_pc' = "returned"
    /\ UNCHANGED <<fft_size, stft_len, stft_window, stft_hop>>
    /\ UNCHANGED notStft

NextStft == ComputeStft

SpecStft == InitStft /\ [][NextStft]_vars

\* ------------------------------------------------------------------------
\* Pipeline
\* ------------------------------------------------------------------------
\* The spectrogram of a silent buffer: the transform of an all-zero frame is
\* zero in every bin.
SilentSpectrogram(shape) ==
    MakeSpectrogram(shape.time_frames, shape.frequency_bins,
                    [c \in Cells(shape.time_frames, shape.frequency_bins) |-> 0])

\* What peak detection, pairing and hashing make of a spectrogram.  For
\* silence the constellation is computed; without peaks
\* extract_landmark_pairs returns no pair and generate_fingerprints no
\* fingerprint.  A tone stands for a signal that yields one fingerprint.
PipelineFingerprints(c, shape) ==
    IF c = "silence"
    THEN LET found == CHOOSE o \in detect_peaks(SilentSpectrogram(shape),
                                               DefaultMinPeakDistance) : TRUE
         IN  IF found.value = <<>> THEN <<>> ELSE <<FpLiteral>>
    ELSE <<FpLiteral>>

process_audio_sample(s) ==
    IF s.size = 0 THEN Thrown("Audio sample is empty")
    ELSE LET pre == preprocess_for_fingerprinting(s)
             spec == compute_stft(pre.value, PipelineFftSize, PipelineWindowSize,
                                  PipelineHopSize)
         IN  IF ~pre.ok THEN pre
             ELSE IF ~spec.ok THEN spec
             ELSE IF spec.value.rows = 0 THEN Thrown("Spectrogram is empty")
             ELSE Returned(PipelineFingerprints(s.content, spec.value))

\* The samples process_audio_sample is called with.
PipelineSizeValues == {1, 1000, 1024, 2000, 2047, 2048, 4096, 4097, 11025}
PipelineRateValues == {0, 8000, 11025, 22050, 44100}

InitPipeline ==
    /\ \E n \in PipelineSizeValues, sr \in PipelineRateValues,
          ch \in ChannelValues, c \in {"silence", "tone"} :
          pipe_sample = [size |-> n, sample_rate |-> sr, channels |-> ch,
                         content |-> c]
    /\ pipe_result = NoResult
    /\ pipe_pc = "start"
    /\ IdleExcept("pipeline")

\* A call of process_audio_sample(pipe_sample).
ProcessSample ==
    /\ pipe_pc = "start"
    /\ pipe_result' = process_audio_sample(pipe_sample)
    /\ pipe_pc' = "returned"
    /\ UNCHANGED pipe_sample
    /\ UNCHANGED notPipeline

NextPipeline == ProcessSample

SpecPipeline == InitPipeline /\ [][NextPipeline]_vars

\* ------------------------------------------------------------------------
\* Batch driver, continued
\* ------------------------------------------------------------------------
\* BatchProcessingResult()
DefaultResult ==
    [fingerprints |-> <<>>, song_id |-> "", total_duration_ms |-> 0,
     processing_time_ms |-> 0, success |-> FALSE, error_message |-> ""]

\* The samples a batch is made of.
SampleValues ==
    {DefaultSample,
     MakeSample(4096, 11025, 1, "tone"),
     MakeSample(4096, 11025, 1, "silence"),
     MakeSample(32768, 44100, 2, "tone"),
     MakeSample(4097, 11025, 2, "tone"),
     MakeSample(4096, 11025, 3, "tone"),
     MakeSample(1000, 11025, 1, "tone"),
     MakeSample(2000, 11025, 1, "tone"),
     MakeSample(2, 44100, 1, "tone")}

\* process_audio_sample on each sample a batch can hold: what the loop body
\* gets back from its call, or the exception it catches.
BatchOutcomes == [s \in SampleValues |-> process_audio_sample(s)]

\* A loop body that names the song only once processing has succeeded.
ItemResult_IdOnSuccessOnly(s, id, elapsed) ==
    LET r == BatchOutcomes[s]
    IN  IF r.ok
        THEN [DefaultResult EXCEPT !.song_id = id, !.fingerprints = r.value,
                                   !.total_duration_ms = s.duration_ms,
                                   !.success = TRUE,
                                   !.processing_time_ms = elapsed]
        ELSE [DefaultResult EXCEPT !.success = FALSE,
                                   !.error_message = r.error,
                                   !.processing_time_ms = elapsed]

\* A loop body that swallows the exception without recording its message.
ItemResult_ErrorDropped(s, id, elapsed) ==
    LET r == BatchOutcomes[s]
    IN  IF r.ok
        THEN [DefaultResult EXCEPT !.song_id = id, !.fingerprints = r.value,
                                   !.total_duration_ms = s.duration_ms,
                                   !.success = TRUE,
                                   !.processing_time_ms = elapsed]
        ELSE [DefaultResult EXCEPT !.song_id = id, !.success = FALSE,
                                   !.processing_time_ms = elapsed]

\* The body of the batch loop for one item: the result pushed back.
ItemResult(s, id, elapsed) ==
    LET r == BatchOutcomes[s]
    IN  IF r.ok
        THEN [DefaultResult EXCEPT !.song_id = id, !.fingerprints = r.value,
                                   !.total_duration_ms = s.duration_ms,
                                   !.success = TRUE,
                                   !.processing_time_ms = elapsed]
        ELSE [DefaultResult EXCEPT !.song_id = id, !.success = FALSE,
                                   !.error_message = r.error,
                                   !.processing_time_ms = elapsed]

\* A size check that only rejects a shortage of song identifiers.
SizesMatch_AtMost(samples, ids) == Len(samples) <= Len(ids)

\* audio_samples.size() != song_ids.size() is the condition of the throw.
SizesMatch(samples, ids) == Len(samples) = Len(ids)

SongIdValues == {"song-a", "song-b"}

InitBatch ==
    /\ audio_samples \in SeqsUpTo(SampleValues, MaxBatch)
    /\ song_ids \in SeqsUpTo(SongIdValues, MaxBatch)
    /\ results = <<>> /\ batch_i = 0 /\ processed = 0 /\ batch_error = ""
    /\ batch_pc = "start"
    /\ IdleExcept("batch")

\* Entry of batch_process_reference_songs: the size check.
BatchCall ==
    /\ batch_pc = "start"
    /\ IF SizesMatch(audio_samples, song_ids)
       THEN /\ batch_pc' = "loop"
            /\ batch_error' = ""
       ELSE /\ batch_pc' = "threw"
            /\ batch_error' = "Audio samples and song IDs must have same size"
    /\ UNCHANGED <<audio_samples, song_ids, results, batch_i, processed>>
    /\ UNCHANGED notBatch

\* One iteration of the loop over the samples.
BatchItem ==
    /\ batch_pc = "loop"
    /\ batch_i < Len(audio_samples)
    /\ \E elapsed \in 0..MaxElapsedMs :
          results' = Append(results, ItemResult(audio_samples[batch_i + 1],
                                                song_ids[batch_i + 1], elapsed))
    /\ batch_i' = batch_i + 1
    /\ processed' = processed + 1
    /\ UNCHANGED <<audio_samples, song_ids, batch_error, batch_pc>>
    /\ UNCHANGED notBatch

\* The loop is over: return results.
BatchReturn ==
    /\ batch_pc = "loop"
    /\ batch_i >= Len(audio_samples)
    /\ batch_pc' = "returned"
    /\ UNCHANGED <<audio_samples, song_ids, results, batch_i, processed, batch_error>>
    /\ UNCHANGED notBatch

NextBatch == BatchCall \/ BatchItem \/ BatchReturn

SpecBatch == InitBatch /\ [][NextBatch]_vars

\* ------------------------------------------------------------------------
\* Properties of the codec
\* ------------------------------------------------------------------------
FingerprintFields ==
    {"hash_value", "time_offset_ms", "anchor_freq_hz", "target_freq_hz",
     "time_delta_ms"}

\* C1: decoding what serialize_fingerprints returned gives a vector of the
\* same length whose elements equal the originals in all five fields.
C1_RoundTrip ==
    codec_pc = "roundtrip" =>
        /\ decoded.ok
        /\ Len(decoded.value) = Len(fingerprints)
        /\ \A i \in 1..Len(fingerprints) :
              \A fld \in FingerprintFields :
                  decoded.value[i][fld] = fingerprints[i][fld]

\* Two different fingerprints have made the round trip.
C1_Witness ==
    /\ codec_pc = "roundtrip"
    /\ Len(fingerprints) = 2
    /\ fingerprints[1] # fingerprints[2]
    /\ decoded.ok

\* The count the decoder finds in the first four bytes of its input.
DeclaredCount == MemcpyWord(host, SubSeq(input, 1, 4))

\* The input is shorter than 4 bytes or than 4 + 20 * count bytes.
InputTooShort ==
    \/ Len(input) < 4
    \/ U32Less((Len(input) - 4) \div 20, DeclaredCount)

LittleEndian(w) == <<w[4], w[3], w[2], w[1]>>

\* The 20 bytes of the wire format for one fingerprint.
WireRecord(fp) ==
    LittleEndian(fp.hash_value) \o LittleEndian(fp.time_offset_ms)
    \o LittleEndian(fp.anchor_freq_hz) \o LittleEndian(fp.target_freq_hz)
    \o LittleEndian(fp.time_delta_ms)

\* C3: serialize_fingerprints produces 4 + 20 * n bytes, a little-endian
\* count and then the records in input order, every field least significant
\* byte first, whatever the byte order of the host.
C3_WireFormatLittleEndian ==
    codec_pc \in {"serialized", "roundtrip", "decoded"} =>
        /\ Len(data) = 4 + 20 * Len(fingerprints)
        /\ SubSeq(data, 1, 4) = LittleEndian(U32(Len(fingerprints)))
        /\ \A i \in 1..Len(fingerprints) :
              SubSeq(data, 4 + 20 * (i - 1) + 1, 4 + 20 * i)
                  = WireRecord(fingerprints[i])

\* ------------------------------------------------------------------------
\* Properties of the batch driver
\* ------------------------------------------------------------------------
\* C4: a batch over equal-length lists returns one result per sample, in
\* input order, each carrying the song id of its position.
C4_OneResultPerSample ==
    batch_pc = "returned" =>
        /\ Len(results) = Len(audio_samples)
        /\ \A i \in 1..Len(results) : results[i].song_id = song_ids[i]

\* A batch of a failing and a succeeding item under two song ids has returned.
C4_Witness ==
    /\ batch_pc = "returned"
    /\ Len(results) = 2
    /\ song_ids[1] # song_ids[2]
    /\ ~results[1].success
    /\ results[2].success

\* C5: a failing item is captured in its own result (success false, a
\* non-empty message, no fingerprints) and a succeeding item has success true
\* and no message, each result depending on its own sample only; a failure
\* never ends the batch, which processes every item before it returns.
C5_FailuresCaptured ==
    /\ \A j \in 1..Len(results) :
          LET own == BatchOutcomes[audio_samples[j]]
          IN  IF own.ok
              THEN /\ results[j].success
                   /\ results[j].error_message = ""
                   /\ results[j].fingerprints = own.value
              ELSE /\ ~results[j].success
                   /\ results[j].error_message # ""
                   /\ results[j].fingerprints = <<>>
    /\ batch_pc = "loop" => Len(results) = batch_i
    /\ batch_pc = "returned" =>
          /\ processed = Len(audio_samples)
          /\ Len(results) = Len(audio_samples)

\* The first item failed and the second was still processed, with fingerprints.
C5_Witness ==
    /\ batch_pc = "returned"
    /\ Len(results) = 2
    /\ ~results[1].success
    /\ results[2].success
    /\ results[2].fingerprints # <<>>

\* C6: lists of different lengths make the call raise an invalid-input error
\* before any sample is processed, and no result is produced.
C6_MismatchFailsFast ==
    (batch_pc \in {"loop", "threw", "returned"}
        /\ Len(audio_samples) # Len(song_ids)) =>
        /\ batch_pc = "threw"
        /\ batch_error # ""
        /\ processed = 0
        /\ results = <<>>

\* A call with one song id more than samples has been rejected.
C6_Witness ==
    /\ batch_pc = "threw"
    /\ Len(audio_samples) = MaxBatch - 1
    /\ Len(song_ids) = MaxBatch
    /\ processed = 0

\* C7: every batch result carries the duration_ms of its input sample as
\* total_duration_ms, for failed items as well as for successful ones.
C7_DurationFromInput ==
    batch_pc = "returned" =>
        \A i \in 1..Len(results) :
            results[i].total_duration_ms = audio_samples[i].duration_ms

\* ------------------------------------------------------------------------
\* Properties of the landmark pairer
\* ------------------------------------------------------------------------
\* C8: no emitted pair joins two peaks of equal time_seconds: the anchor is
\* strictly earlier than the target.
C8_AnchorStrictlyEarlier ==
    \A k \in 1..Len(landmark_pairs) :
        landmark_pairs[k].anchor.time_seconds
            < landmark_pairs[k].target.time_seconds

\* C9: every emitted pair has its target no earlier than its anchor, a
\* time_delta_ms between 0 and max_time_delta and a frequency difference of
\* at most max_freq_delta, however the constellation is ordered.
C9_PairsWithinGates ==
    \A k \in 1..Len(landmark_pairs) :
        LET pr == landmark_pairs[k]
        IN  /\ pr.target.time_seconds >= pr.anchor.time_seconds
            /\ 0 <= pr.time_delta_ms
            /\ pr.time_delta_ms <= max_time_delta
            /\ Abs(pr.freq_delta_hz) <= max_freq_delta

\* A constellation stored latest peak first has produced a pair.
C9_Witness ==
    /\ pairs_pc = "returned"
    /\ Len(constellation) >= 2
    /\ constellation[1].time_seconds > constellation[2].time_seconds
    /\ landmark_pairs # <<>>

\* p is earlier than q and q lies within both gates of p.
Qualifies(p, q) ==
    /\ p.time_seconds < q.time_seconds
    /\ q.time_seconds - p.time_seconds <= max_time_delta * TimeScale
    /\ Abs(q.frequency_hz - p.frequency_hz) <= max_freq_delta

\* The number of elements of the sequence s that satisfy Test.
CountIn(s, Test(_)) == Cardinality({k \in 1..Len(s) : Test(s[k])})

\* C10: the pairer is complete: each pair of constellation peaks p, q with
\* p earlier than q and q within both gates is emitted exactly once (once
\* for each way of choosing p and q among the stored peaks).
C10_EveryQualifyingPairOnce ==
    pairs_pc = "returned" =>
        \A m, n \in 1..Len(constellation) :
            LET p == constellation[m]
                q == constellation[n]
                IsP(x) == x = p
                IsQ(x) == x = q
                IsPQ(pr) == pr.anchor = p /\ pr.target = q
            IN  Qualifies(p, q) =>
                    CountIn(landmark_pairs, IsPQ)
                        = CountIn(constellation, IsP) * CountIn(constellation, IsQ)

\* A pair exactly at the time gate was emitted although the scan of its
\* anchor was cut short by a later peak beyond the gate.
C10_Witness ==
    /\ pairs_pc = "returned"
    /\ \E m, n, o \in 1..Len(constellation) :
          /\ Qualifies(constellation[m], constellation[n])
          /\ constellation[n].time_seconds - constellation[m].time_seconds
                = max_time_delta * TimeScale
          /\ constellation[o].time_seconds - constellation[m].time_seconds
                > max_time_delta * TimeScale
    /\ landmark_pairs # <<>>


\* ------------------------------------------------------------------------
\* Properties of the peak detector
\* ------------------------------------------------------------------------
\* C11: any two distinct peaks of the constellation detect_peaks returns lie
\* at a Euclidean distance of at least min_peak_distance in the
\* time-frequency plane.
C11_PeaksSeparated ==
    (peaks_pc = "returned" /\ detected.ok) =>
        \A m, n \in 1..Len(detected.value) :
            m # n =>
                LET p == detected.value[m]
                    q == detected.value[n]
                    dt == p.time_frame - q.time_frame
                    df == p.frequency_bin - q.frequency_bin
                IN  dt * dt + df * df >= min_peak_distance * min_peak_distance

\* Of two candidates closer than min_peak_distance one was removed.
C11_Witness ==
    /\ peaks_pc = "returned"
    /\ Len(candidate_peaks) = 2
    /\ Len(detected.value) = 1
    /\ min_peak_distance = 3

\* The eight cells around <<t, f>>.
Neighbours(t, f) ==
    {c \in ((t - 1)..(t + 1)) \X ((f - 1)..(f + 1)) : c # <<t, f>>}

\* C12: every peak of the constellation is an interior cell of the source
\* spectrogram whose magnitude is strictly greater than that of each of its
\* eight neighbours; a cell that ties with a neighbour is never reported.
C12_StrictLocalMaximum ==
    (peaks_pc = "returned" /\ detected.ok) =>
        \A k \in 1..Len(detected.value) :
            LET t == detected.value[k].time_frame
                f == detected.value[k].frequency_bin
            IN  /\ 1 <= t /\ t <= spectrogram.time_frames - 2
                /\ 1 <= f /\ f <= spectrogram.frequency_bins - 2
                /\ detected.value[k].magnitude = spectrogram.data[<<t, f>>]
                /\ \A c \in Neighbours(t, f) :
                       spectrogram.data[c] < spectrogram.data[<<t, f>>]

\* A peak was reported while an interior cell above the gate that only ties
\* with a neighbour was not.
C12_Witness ==
    /\ peaks_pc = "returned"
    /\ detected.value # <<>>
    /\ \E c \in ScannedCells(spectrogram) :
          /\ spectrogram.data[c] >= MinMagnitudeThreshold
          /\ \A n \in Neighbours(c[1], c[2]) :
                 spectrogram.data[n] <= spectrogram.data[c]
          /\ \E n \in Neighbours(c[1], c[2]) :
                 spectrogram.data[n] = spectrogram.data[c]
          /\ \A k \in 1..Len(detected.value) :
                 <<detected.value[k].time_frame, detected.value[k].frequency_bin>> # c

\* The peaks of the constellation, as a set.
Accepted == {detected.value[k] : k \in 1..Len(detected.value)}

\* The candidates ordered by magnitude, descending, those of equal magnitude
\* in the order of the scan.
ScanOrderSorted(c) ==
    CHOOSE s \in Rearrangements(c) :
        \A m, n \in 1..Len(s) :
            m < n =>
                \/ s[m].magnitude > s[n].magnitude
                \/ /\ s[m].magnitude = s[n].magnitude
                   /\ \/ s[m].time_frame < s[n].time_frame
                      \/ /\ s[m].time_frame = s[n].time_frame
                         /\ s[m].frequency_bin < s[n].frequency_bin

\* The selection the filter makes of the peaks s taken in this order.
RECURSIVE GreedySelection(_, _)
GreedySelection(s, min_d) ==
    IF s = <<>> THEN <<>>
    ELSE LET before == GreedySelection(SubSeq(s, 1, Len(s) - 1), min_d)
             p == s[Len(s)]
         IN  IF \E m \in 1..Len(before) :
                    (p.time_frame - before[m].time_frame)
                        * (p.time_frame - before[m].time_frame)
                    + (p.frequency_bin - before[m].frequency_bin)
                        * (p.frequency_bin - before[m].frequency_bin)
                    < min_d * min_d
             THEN before
             ELSE Append(before, p)

\* C24: candidates of equal magnitude are taken in the order of the scan
\* (lower t, then lower f), so of two equal candidates closer than
\* min_peak_distance the first found is kept and detect_peaks returns one
\* and the same set of peaks for a spectrogram and a configuration.
C24_TiesByScanOrder ==
    (peaks_pc = "returned" /\ detected.ok) =>
        LET kept == GreedySelection(ScanOrderSorted(candidate_peaks),
                                    min_peak_distance)
        IN  Accepted = {kept[k] : k \in 1..Len(kept)}

\* C25: every candidate that is absent from the constellation lies closer
\* than min_peak_distance to an accepted peak of at least its magnitude, and
\* a candidate of the greatest magnitude is accepted.
C25_GreedyByMagnitude ==
    (peaks_pc = "returned" /\ detected.ok) =>
        /\ \A k \in 1..Len(candidate_peaks) :
              LET p == candidate_peaks[k]
              IN  p \notin Accepted =>
                      \E q \in Accepted :
                          /\ q.magnitude >= p.magnitude
                          /\ (p.time_frame - q.time_frame)
                                 * (p.time_frame - q.time_frame)
                             + (p.frequency_bin - q.frequency_bin)
                                 * (p.frequency_bin - q.frequency_bin)
                             < min_peak_distance * min_peak_distance
        /\ candidate_peaks # <<>> =>
              \E q \in Accepted :
                  \A k \in 1..Len(candidate_peaks) :
                      q.magnitude >= candidate_peaks[k].magnitude

\* Of two candidates the weaker, which was found first, was removed.
C25_Witness ==
    /\ peaks_pc = "returned"
    /\ Len(candidate_peaks) = 2
    /\ candidate_peaks[1].magnitude < candidate_peaks[2].magnitude
    /\ detected.value = <<candidate_peaks[2]>>

\* ------------------------------------------------------------------------
\* Properties of the hash generator
\* ------------------------------------------------------------------------
Max(a, b) == IF a > b THEN a ELSE b

\* clamp(floor(max(x, 0) / q), 0, 65535)
ClampedBin(x, q) == Min(Max(Max(x, 0) \div q, 0), 65535)

\* The pair the k-th fingerprint was made of.
PairOf(k) == gen_pairs[k]

\* C13: quantisation clamps: the time bin is
\* clamp(floor(max(t, 0) / time_quantization), 0, 65535) and each frequency
\* bin clamp(floor(max(x, 0) / freq_quantization), 0, 65535), so negative
\* inputs give bin 0 and quotients above 65535 give 65535.
C13_QuantisationClamps ==
    \A k \in 1..Len(gen_bins) :
        /\ gen_bins[k].time_delta_bin
              = ClampedBin(PairOf(k).time_delta_ms, time_quantization)
        /\ gen_bins[k].anchor_freq_bin
              = ClampedBin(PairOf(k).anchor.frequency_hz, freq_quantization)
        /\ gen_bins[k].target_freq_bin
              = ClampedBin(PairOf(k).target.frequency_hz, freq_quantization)

\* mix(v) of the hash derivation, on a 16-bit value widened to 32 bits.
Mix(v) ==
    LET w0 == Widen16(v)
        w1 == Add32(Add32(w0, Halves(<<126, 213, 93, 22>>)), Shl32(w0, 12))
        w2 == Xor32(Xor32(w1, Halves(<<199, 97, 194, 60>>)), Shr32(w1, 19))
        w3 == Add32(Add32(w2, Halves(<<22, 86, 103, 177>>)), Shl32(w2, 5))
        w4 == Xor32(Add32(w3, Halves(<<211, 162, 100, 108>>)), Shl32(w3, 9))
        w5 == Add32(Add32(w4, Halves(<<253, 112, 70, 197>>)), Shl32(w4, 3))
    IN  Xor32(Xor32(w5, Halves(<<181, 90, 79, 9>>)), Shr32(w5, 16))

\* The three quantised values of a pair, as the hash derivation defines them.
QuantisedValues(pair) ==
    <<ClampedBin(pair.anchor.frequency_hz, freq_quantization),
      ClampedBin(pair.target.frequency_hz, freq_quantization),
      ClampedBin(pair.time_delta_ms, time_quantization)>>

\* C14: the hash of a pair is mix(qf(anchor)) XOR mix(qf(target)) XOR
\* mix(qt(time_delta_ms)); hence pairs with the same three quantised values
\* have the same hash, and so have pairs whose anchor and target frequencies
\* are swapped.
C14_HashIsXorOfMixes ==
    /\ \A k \in 1..Len(gen_fingerprints) :
          LET q == QuantisedValues(PairOf(k))
          IN  gen_fingerprints[k].hash_value
                  = HalvesWord(Xor32(Xor32(Mix(q[1]), Mix(q[2])), Mix(q[3])))
    /\ \A j, k \in 1..Len(gen_fingerprints) :
          LET p == QuantisedValues(PairOf(j))
              q == QuantisedValues(PairOf(k))
          IN  (p = q \/ p = <<q[2], q[1], q[3]>>) =>
                  gen_fingerprints[j].hash_value = gen_fingerprints[k].hash_value

\* A time in units rounded to the nearest millisecond.
RoundToMs(time_seconds) ==
    (2 * time_seconds + TimeScale) \div (2 * TimeScale)

\* C15: generate_fingerprints emits one fingerprint per landmark pair, in
\* input order, and the time_offset_ms of each is the anchor time rounded to
\* the nearest millisecond.
C15_OnePerPairRoundedOffset ==
    /\ Len(gen_fingerprints) <= Len(gen_pairs)
    /\ gen_pc = "returned" => Len(gen_fingerprints) = Len(gen_pairs)
    /\ \A k \in 1..Len(gen_fingerprints) :
          /\ gen_fingerprints[k].anchor_freq_hz = PairOf(k).anchor.frequency_hz
          /\ gen_fingerprints[k].target_freq_hz = PairOf(k).target.frequency_hz
          /\ gen_fingerprints[k].time_delta_ms = PairOf(k).time_delta_ms
          /\ gen_fingerprints[k].time_offset_ms
                = RoundToMs(PairOf(k).anchor.time_seconds)

\* ------------------------------------------------------------------------
\* Properties of the preprocessor
\* ------------------------------------------------------------------------
\* The input is non-empty, mono or stereo (of even length) and has a
\* positive sample rate.
AcceptableInput ==
    /\ pre_sample.data # <<>>
    /\ pre_sample.channels \in {1, 2}
    /\ pre_sample.channels = 2 => Len(pre_sample.data) % 2 = 0
    /\ pre_sample.sample_rate > 0

\* The greatest magnitude among the values of a non-empty buffer.
PeakOf(d) ==
    CHOOSE m \in {FracAbs(d[k]) : k \in 1..Len(d)} :
        \A k \in 1..Len(d) : ~FracLess(m, FracAbs(d[k]))

CanonicalShape ==
    /\ pre_sample.data # <<>>
    /\ pre_sample.channels = 1
    /\ pre_sample.sample_rate = 11025
    /\ ~BelowSilence(PeakOf(pre_sample.data))

\* C17 as stated: a sample that is mono at 11025 Hz with a peak of at most 1
\* and at least 1e-10 comes back with its data unchanged, element by element.
C17_IdempotentOnCanonical ==
    (pre_pc = "returned" /\ CanonicalShape
        /\ ~FracLess(<<1, 1>>, PeakOf(pre_sample.data))) =>
        /\ pre_result.ok
        /\ pre_result.value.data = pre_sample.data

\* C17, amended: a sample that is mono at 11025 Hz with a peak of exactly 1
\* comes back with its data unchanged, element by element.
C17_IdempotentAtFullScale ==
    (pre_pc = "returned" /\ CanonicalShape
        /\ PeakOf(pre_sample.data) = <<1, 1>>) =>
        /\ pre_result.ok
        /\ pre_result.value.data = pre_sample.data

\* A mono 11025 Hz sample whose peak of 1 is a negative value and that holds
\* a smaller value as well has been preprocessed.
C17_Witness ==
    /\ pre_pc = "returned"
    /\ CanonicalShape
    /\ PeakOf(pre_sample.data) = <<1, 1>>
    /\ \E k \in 1..Len(pre_sample.data) : pre_sample.data[k] = <<1, 2>>
    /\ pre_result.ok

\* C18: for positive rates resample_audio returns exactly
\* floor(len * target_rate / input_rate) samples, a copy of the input when
\* the rates are equal; the early exit of the loop never shortens the output.
C18_ResampledLength ==
    (rs_pc = "returned" /\ rs_input_rate > 0 /\ rs_target_rate > 0) =>
        /\ rs_output.ok
        /\ Len(rs_output.value) = (Len(rs_input) * rs_target_rate) \div rs_input_rate
        /\ rs_input_rate = rs_target_rate => rs_output.value = rs_input

\* ------------------------------------------------------------------------
\* Properties of the transform and of the pipeline
\* ------------------------------------------------------------------------
\* floor(x / d) for d > 0.
FloorDiv(x, d) == IF x >= 0 THEN x \div d ELSE 0 - ((d - 1 - x) \div d)

\* C19: for a non-empty buffer of length N and window_size <= fft_size,
\* 0 < hop_size <= window_size, buffers shorter than the window included,
\* compute_stft returns a spectrogram of
\* time_frames = floor((N - window_size) / hop_size) + 1 rows of
\* frequency_bins = fft_size / 2 + 1 values each.
C19_SpectrogramShape ==
    (stft_pc = "returned" /\ stft_len > 0 /\ stft_window <= fft_size
        /\ 0 < stft_hop /\ stft_hop <= stft_window) =>
        /\ stft_result.ok
        /\ stft_result.value.time_frames
              = FloorDiv(stft_len - stft_window, stft_hop) + 1
        /\ stft_result.value.frequency_bins = fft_size \div 2 + 1
        /\ stft_result.value.rows = stft_result.value.time_frames
        /\ stft_result.value.row_size = stft_result.value.frequency_bins

\* The sample is silent, non-empty, mono or stereo (of even length) and has
\* a positive rate.
SilentInput ==
    /\ pipe_sample.content = "silence"
    /\ pipe_sample.size > 0
    /\ pipe_sample.channels \in {1, 2}
    /\ pipe_sample.channels = 2 => pipe_sample.size % 2 = 0
    /\ pipe_sample.sample_rate > 0

\* C20 as stated: process_audio_sample on a silent sample completes without
\* error and returns an empty fingerprint vector.
C20_SilenceGivesNoFingerprints ==
    (pipe_pc = "returned" /\ SilentInput) =>
        /\ pipe_result.ok
        /\ pipe_result.value = <<>>

\* C20, amended: process_audio_sample on a silent sample whose preprocessed
\* buffer holds at least one window of 2048 samples completes without error
\* and returns an empty fingerprint vector.
C20_LongSilenceGivesNoFingerprints ==
    (pipe_pc = "returned" /\ SilentInput
        /\ preprocess_for_fingerprinting(pipe_sample).value >= PipelineWindowSize) =>
        /\ pipe_result.ok
        /\ pipe_result.value = <<>>

\* 11025 mono zeros at 11025 Hz have been processed.
C20_Witness ==
    /\ pipe_pc = "returned"
    /\ SilentInput
    /\ pipe_sample.size = 11025
    /\ pipe_sample.channels = 1
    /\ pipe_sample.sample_rate = 11025
    /\ pipe_result.ok

\* ------------------------------------------------------------------------
\* API client (ApiClient)
\* ------------------------------------------------------------------------
\* Bound of the client model: the number of requests posted.
MaxPosts == 4

MAX_RETRIES == 3

\* The audio data identifyAudio is called with; "" is the empty array.
AudioDataValues == {"", "a", "b"}

\* The errors the network makes a reply report: one that shouldRetry accepts
\* and one it does not.
NetworkErrorValues == {"ConnectionRefusedError", "ContentNotFoundError"}

\* What a reply that ended without an error carries: the HTTP status and
\* whether the body parses as JSON.
ResponseValues == {<<200, TRUE>>, <<200, FALSE>>, <<204, TRUE>>}

\* The arguments of uploadProgress(bytesSent, bytesTotal).
UploadValues == {<<0, 0>>, <<1, 2>>, <<2, 2>>}

\* A QNetworkReply just posted: error() is NoError and no status is known.
NewReply == [state |-> "in_flight", error |-> "NoError", status |-> 0,
             json |-> FALSE]

\* A reply after deleteLater.
DeletedReply == [state |-> "deleted", error |-> "NoError", status |-> 0,
                 json |-> FALSE]

\* The object as the event loop hands it to the next slot: no signal of the
\* slot has been emitted yet.
AtEventLoop(w) == [w EXCEPT !.emitted = <<>>]

\* ApiClient::ApiClient, with no reply object yet and no signal emitted.
NewClient ==
    [m_isProcessing |-> FALSE, m_uploadProgress |-> 0, m_retryCount |-> 0,
     m_pendingAudioData |-> "", m_currentReply |-> 0,
     m_timeoutTimer |-> FALSE, m_retryTimer |-> FALSE,
     replies |-> <<>>, emitted |-> <<>>]

\* emit signal(...)
Emit(w, signal) == [w EXCEPT !.emitted = Append(@, signal)]

setIsProcessing(w, processing) ==
    IF w.m_isProcessing # processing
    THEN Emit([w EXCEPT !.m_isProcessing = processing], <<"isProcessingChanged">>)
    ELSE w

setUploadProgress(w, progress) ==
    IF w.m_uploadProgress # progress
    THEN Emit([w EXCEPT !.m_uploadProgress = progress], <<"uploadProgressChanged">>)
    ELSE w

\* deleteLater removes the reply when control returns to the event loop; it
\* is no longer m_currentReply from here on.
cleanupCurrentRequest(w) ==
    IF w.m_currentReply # 0
    THEN [w EXCEPT !.replies[w.m_currentReply] = DeletedReply,
                   !.m_currentReply = 0]
    ELSE w

shouldRetry(error) ==
    error \in {"ConnectionRefusedError", "OperationCanceledError"}

\* Post the request: the new reply replaces m_currentReply, the timeout
\* timer is started and the progress reset.
performIdentifyRequest(w, audioData) ==
    LET reply == Len(w.replies) + 1
    IN  setUploadProgress([w EXCEPT !.replies = Append(@, NewReply),
                                    !.m_currentReply = reply,
                                    !.m_timeoutTimer = TRUE], 0)

\* A call that posts whatever data it is given.
identifyAudio_NoDataCheck(w, audioData) ==
    IF w.m_isProcessing THEN w
    ELSE performIdentifyRequest(
             [setUploadProgress(setIsProcessing(w, TRUE), 0)
                 EXCEPT !.m_retryCount = 0, !.m_pendingAudioData = audioData],
             audioData)

identifyAudio(w, audioData) ==
    IF w.m_isProcessing THEN w
    ELSE IF audioData = "" THEN Emit(w, <<"identificationFailed">>)
    ELSE performIdentifyRequest(
             [setUploadProgress(setIsProcessing(w, TRUE), 0)
                 EXCEPT !.m_retryCount = 0, !.m_pendingAudioData = audioData],
             audioData)

\* m_retryCount++; emit retryAttempt; m_retryTimer->start(delay).
ScheduleRetry(w) ==
    [Emit([w EXCEPT !.m_retryCount = @ + 1],
          <<"retryAttempt", w.m_retryCount + 1, MAX_RETRIES>>)
        EXCEPT !.m_retryTimer = TRUE]

\* The final-failure branches: clear the data, leave the processing state
\* and report the failure.
FinalFailure(w) ==
    Emit(setUploadProgress(
             setIsProcessing([w EXCEPT !.m_pendingAudioData = ""], FALSE), 0),
         <<"identificationFailed">>)

\* The slot of QNetworkReply::finished.  It looks at m_currentReply, whichever
\* reply sent the signal.
handleIdentifyResponse(w) ==
    LET stopped == [w EXCEPT !.m_timeoutTimer = FALSE]
        reply == w.replies[w.m_currentReply]
        cleaned == cleanupCurrentRequest(stopped)
    IN  IF w.m_currentReply = 0 THEN stopped
        ELSE IF reply.error = "NoError" /\ reply.status = 200
        THEN Emit(setUploadProgress(
                      setIsProcessing([cleaned EXCEPT !.m_pendingAudioData = ""],
                                      FALSE), 100),
                  IF reply.json THEN <<"identificationResult">>
                  ELSE <<"identificationFailed">>)
        ELSE IF shouldRetry(reply.error) /\ cleaned.m_retryCount < MAX_RETRIES
        THEN ScheduleRetry(cleaned)
        ELSE FinalFailure(cleaned)

\* The slot of QNetworkReply::errorOccurred.
handleNetworkError(w, error) ==
    LET stopped == [w EXCEPT !.m_timeoutTimer = FALSE]
        cleaned == cleanupCurrentRequest(stopped)
    IN  IF w.m_currentReply = 0 THEN stopped
        ELSE IF shouldRetry(error) /\ cleaned.m_retryCount < MAX_RETRIES
        THEN ScheduleRetry(cleaned)
        ELSE FinalFailure(cleaned)

\* QNetworkReply::abort on a reply in flight: the reply emits
\* errorOccurred(OperationCanceledError) and finished before abort returns,
\* and both slots run inside the call.
abort(w, reply) ==
    IF w.replies[reply].state # "in_flight" THEN w
    ELSE handleIdentifyResponse(
             handleNetworkError(
                 [w EXCEPT !.replies[reply].state = "finished",
                           !.replies[reply].error = "OperationCanceledError"],
                 "OperationCanceledError"))

\* The slot of m_timeoutTimer.
handleTimeout(w) ==
    LET aborted == IF w.m_currentReply # 0 THEN abort(w, w.m_currentReply) ELSE w
        cleaned == cleanupCurrentRequest(aborted)
    IN  IF cleaned.m_retryCount < MAX_RETRIES THEN ScheduleRetry(cleaned)
        ELSE FinalFailure(cleaned)

cancelCurrentRequest(w) ==
    LET aborted == IF w.m_currentReply # 0 THEN abort(w, w.m_currentReply) ELSE w
        cleaned == cleanupCurrentRequest([aborted EXCEPT !.m_retryTimer = FALSE,
                                                         !.m_timeoutTimer = FALSE])
    IN  FinalFailure(cleaned)

handleUploadProgress(w, bytesSent, bytesTotal) ==
    IF bytesTotal > 0 THEN setUploadProgress(w, (bytesSent * 100) \div bytesTotal)
    ELSE w

\* The slot of m_retryTimer.
retryRequest(w) ==
    IF w.m_pendingAudioData # "" THEN performIdentifyRequest(w, w.m_pendingAudioData)
    ELSE w

\* The replies that have not ended yet.
InFlight(w) == {r \in 1..Len(w.replies) : w.replies[r].state = "in_flight"}

\* The signals of `names` among those emitted.
Count(emitted, names) ==
    Cardinality({k \in 1..Len(emitted) : emitted[k][1] \in names})

\* The attempt numbers of the retryAttempt signals emitted, in order.
RECURSIVE Attempts(_)
Attempts(emitted) ==
    IF emitted = <<>> THEN <<>>
    ELSE IF Head(emitted)[1] = "retryAttempt"
         THEN <<Head(emitted)[2]>> \o Attempts(Tail(emitted))
    ELSE Attempts(Tail(emitted))

\* What has been seen of the identification under way since identifyAudio
\* accepted it: the terminal signals, the retryAttempt numbers and the
\* requests sent.
NothingObserved ==
    [event |-> <<>>, accepted |-> 0, terminals |-> 0, attempts |-> <<>>,
     sends |-> 0]

\* One event handled from the event loop: `after` is the client once the
\* slot has returned, with the signals it emitted.
Handled(event, after) ==
    LET accepts == event[1] = "identifyAudio" /\ ~api.m_isProcessing
                       /\ after.m_isProcessing
        counted == api.m_isProcessing \/ accepts
        posts == Len(after.replies) - Len(api.replies)
    IN  /\ api' = after
        /\ observed' =
             [event |-> event,
              accepted |-> observed.accepted + (IF accepts THEN 1 ELSE 0),
              terminals |->
                  (IF accepts THEN 0 ELSE observed.terminals)
                  + (IF counted
                     THEN Count(after.emitted, {"identificationResult",
                                                "identificationFailed"})
                     ELSE 0),
              attempts |->
                  (IF accepts THEN <<>> ELSE observed.attempts)
                  \o (IF counted THEN Attempts(after.emitted) ELSE <<>>),
              sends |-> (IF accepts THEN 0 ELSE observed.sends) + posts]

InitClient ==
    /\ api = NewClient
    /\ observed = NothingObserved
    /\ IdleExcept("client")

\* A call of identifyAudio(audioData).
IdentifyAudio ==
    /\ Len(api.replies) < MaxPosts
    /\ \E audioData \in AudioDataValues :
          Handled(<<"identifyAudio", audioData>>,
                  identifyAudio(AtEventLoop(api), audioData))
    /\ UNCHANGED notClient

\* A call of cancelCurrentRequest().
CancelCurrentRequest ==
    /\ Handled(<<"cancelCurrentRequest">>, cancelCurrentRequest(AtEventLoop(api)))
    /\ UNCHANGED notClient

\* A reply in flight ends without an error: it emits finished.
ReplyFinished ==
    /\ \E reply \in InFlight(api), response \in ResponseValues :
          Handled(<<"finished", reply>>,
                  handleIdentifyResponse(
                      [AtEventLoop(api) EXCEPT !.replies[reply] =
                          [state |-> "finished", error |-> "NoError",
                           status |-> response[1], json |-> response[2]]]))
    /\ UNCHANGED notClient

\* A reply in flight ends with an error: it emits errorOccurred, then finished.
ReplyFailed ==
    /\ \E reply \in InFlight(api), error \in NetworkErrorValues :
          Handled(<<"errorOccurred", reply>>,
                  handleIdentifyResponse(
                      handleNetworkError(
                          [AtEventLoop(api) EXCEPT !.replies[reply].state = "finished",
                                            !.replies[reply].error = error],
                          error)))
    /\ UNCHANGED notClient

\* A reply in flight reports upload progress.
UploadProgress ==
    /\ \E reply \in InFlight(api), upload \in UploadValues :
          Handled(<<"uploadProgress", reply>>,
                  handleUploadProgress(AtEventLoop(api), upload[1], upload[2]))
    /\ UNCHANGED notClient

\* The single-shot timeout timer fires.
TimeoutFires ==
    /\ api.m_timeoutTimer
    /\ Handled(<<"timeout">>,
               handleTimeout([AtEventLoop(api) EXCEPT !.m_timeoutTimer = FALSE]))
    /\ UNCHANGED notClient

\* The single-shot retry timer fires.
RetryFires ==
    /\ api.m_retryTimer
    /\ Len(api.replies) < MaxPosts
    /\ Handled(<<"retry">>,
               retryRequest([AtEventLoop(api) EXCEPT !.m_retryTimer = FALSE]))
    /\ UNCHANGED notClient

NextClient ==
    \/ IdentifyAudio \/ CancelCurrentRequest \/ ReplyFinished \/ ReplyFailed
    \/ UploadProgress \/ TimeoutFires \/ RetryFires

SpecClient == InitClient /\ [][NextClient]_vars

\* ------------------------------------------------------------------------
\* Audio recorder (AudioRecorder)
\* ------------------------------------------------------------------------
\* Bounds of the recorder model: the recordings started, the chunks of audio
\* read and the ticks of the progress timer.
MaxRecordings == 2
MaxChunks == 1
MaxTicks == 2

RECORDING_DURATION_MS == 10000
PROGRESS_UPDATE_INTERVAL_MS == 100

\* Qt::PermissionStatus of the microphone.
PermissionValues == {"Undetermined", "Denied", "Granted"}

\* What startRecording finds: a device that starts, no device, or a device
\* whose QAudioSource::start() returns no QIODevice.
AudioDeviceValues == {"ok", "none", "no_start"}

\* AudioRecorder::AudioRecorder under the permission status `status`:
\* checkPermission sets m_hasPermission.  elapsed is the static local of
\* updateProgress; auto_stops holds the recordings whose single-shot stop
\* is still due.
NewRecorder(status) ==
    [m_audioInput |-> FALSE, m_progressTimer |-> FALSE, m_audioBuffer |-> 0,
     m_isRecording |-> FALSE, m_recordingProgress |-> 0, m_errorMessage |-> "",
     m_hasPermission |-> (status = "Granted"), elapsed |-> 0,
     permission |-> status, request_pending |-> FALSE,
     auto_stops |-> {}, recordings |-> 0, emitted |-> <<>>]

setIsRecording(w, recording) ==
    IF w.m_isRecording # recording
    THEN Emit([w EXCEPT !.m_isRecording = recording], <<"isRecordingChanged">>)
    ELSE w

setRecordingProgress(w, progress) ==
    IF w.m_recordingProgress # progress
    THEN Emit([w EXCEPT !.m_recordingProgress = progress],
              <<"recordingProgressChanged">>)
    ELSE w

setErrorMessage(w, message) ==
    IF w.m_errorMessage # message
    THEN Emit([w EXCEPT !.m_errorMessage = message], <<"errorMessageChanged">>)
    ELSE w

setHasPermission(w, hasPermission) ==
    IF w.m_hasPermission # hasPermission
    THEN Emit([w EXCEPT !.m_hasPermission = hasPermission],
              <<"hasPermissionChanged">>)
    ELSE w

\* emit recordingFailed(m_errorMessage)
EmitRecordingFailed(w) == Emit(w, <<"recordingFailed", w.m_errorMessage>>)

PermissionDenied(w) ==
    Emit(setErrorMessage(setHasPermission(w, FALSE),
             "Microphone permission denied. Please enable it in system settings."),
         <<"permissionDenied">>)

PermissionGranted(w) ==
    Emit(setErrorMessage(setHasPermission(w, TRUE), ""), <<"permissionGranted">>)

requestPermission(w) ==
    IF w.permission = "Undetermined" THEN [w EXCEPT !.request_pending = TRUE]
    ELSE IF w.permission = "Denied" THEN PermissionDenied(w)
    ELSE PermissionGranted(w)

checkPermission(w) == setHasPermission(w, w.permission = "Granted")

handlePermissionResult(w) ==
    IF w.permission = "Granted" THEN PermissionGranted(w)
    ELSE PermissionDenied(w)

startRecording(w, device) ==
    IF w.m_isRecording THEN w
    ELSE IF ~w.m_hasPermission
    THEN requestPermission(EmitRecordingFailed(
             setErrorMessage(w, "Microphone permission required")))
    ELSE LET cleared == setRecordingProgress(
                            setErrorMessage([w EXCEPT !.m_audioBuffer = 0], ""), 0)
         IN  IF device = "none"
             THEN EmitRecordingFailed(
                      setErrorMessage(cleared, "No audio input device available"))
             ELSE IF device = "no_start"
             THEN EmitRecordingFailed(
                      setErrorMessage(cleared, "Failed to start audio recording"))
             ELSE [setIsRecording([cleared EXCEPT !.m_audioInput = TRUE], TRUE)
                      EXCEPT !.m_progressTimer = TRUE,
                             !.recordings = @ + 1,
                             !.auto_stops = @ \cup {w.recordings + 1}]

stopRecording(w) ==
    IF ~w.m_isRecording THEN w
    ELSE LET stopped == setRecordingProgress(
                            setIsRecording([w EXCEPT !.m_progressTimer = FALSE,
                                                     !.m_audioInput = FALSE],
                                           FALSE), 100)
         IN  IF stopped.m_audioBuffer # 0
             THEN Emit(stopped, <<"recordingCompleted">>)
             ELSE EmitRecordingFailed(
                      setErrorMessage(stopped, "No audio data recorded"))

updateProgress(w) ==
    IF ~w.m_isRecording THEN w
    ELSE LET elapsed == w.elapsed + PROGRESS_UPDATE_INTERVAL_MS
             progress == (elapsed * 100) \div RECORDING_DURATION_MS
         IN  [setRecordingProgress(w, Min(progress, 100))
                 EXCEPT !.elapsed = IF elapsed >= RECORDING_DURATION_MS
                                    THEN 0 ELSE elapsed]

handleAudioInput(w) ==
    IF w.m_audioInput THEN [w EXCEPT !.m_audioBuffer = @ + 1] ELSE w

\* The oldest single-shot stop that is due: the timers run for the same
\* time, so they fire in the order they were started.
NextAutoStop(w) == CHOOSE k \in w.auto_stops : \A j \in w.auto_stops : k <= j

\* One event handled: `ended` is the recording the event brought to an end,
\* or 0.
Recorded(event, after) ==
    /\ recorder' = after
    /\ recorded' = [event |-> event,
                    ended |-> IF recorder.m_isRecording /\ ~after.m_isRecording
                              THEN recorder.recordings ELSE 0]

InitRecorder ==
    /\ \E status \in PermissionValues : recorder = NewRecorder(status)
    /\ recorded = [event |-> <<>>, ended |-> 0]
    /\ IdleExcept("recorder")

\* A call of startRecording().
StartRecording ==
    /\ recorder.recordings < MaxRecordings
    /\ \E device \in AudioDeviceValues :
          Recorded(<<"startRecording">>,
                   startRecording(AtEventLoop(recorder), device))
    /\ UNCHANGED notRecorder

\* A call of stopRecording().
StopRecording ==
    /\ Recorded(<<"stopRecording">>, stopRecording(AtEventLoop(recorder)))
    /\ UNCHANGED notRecorder

\* The single-shot timer of a startRecording fires: stopRecording runs.
AutoStop ==
    /\ recorder.auto_stops # {}
    /\ Recorded(<<"autoStop", NextAutoStop(recorder)>>,
                stopRecording([AtEventLoop(recorder) EXCEPT
                                  !.auto_stops = @ \ {NextAutoStop(recorder)}]))
    /\ UNCHANGED notRecorder

\* The progress timer fires.
ProgressTick ==
    /\ recorder.m_progressTimer
    /\ recorder.elapsed < MaxTicks * PROGRESS_UPDATE_INTERVAL_MS
    /\ Recorded(<<"updateProgress">>, updateProgress(AtEventLoop(recorder)))
    /\ UNCHANGED notRecorder

\* The audio device has data to read.
AudioInput ==
    /\ recorder.m_audioInput
    /\ recorder.m_audioBuffer < MaxChunks
    /\ Recorded(<<"readyRead">>, handleAudioInput(AtEventLoop(recorder)))
    /\ UNCHANGED notRecorder

\* A call of requestPermission().
RequestPermission ==
    /\ Recorded(<<"requestPermission">>, requestPermission(AtEventLoop(recorder)))
    /\ UNCHANGED notRecorder

\* A call of checkPermission().
CheckPermission ==
    /\ Recorded(<<"checkPermission">>, checkPermission(AtEventLoop(recorder)))
    /\ UNCHANGED notRecorder

\* The user answers the permission dialog or changes the system settings.
PermissionChanges ==
    /\ \E status \in PermissionValues \ {"Undetermined", recorder.permission} :
          Recorded(<<"permission", status>>,
                   [AtEventLoop(recorder) EXCEPT !.permission = status])
    /\ UNCHANGED notRecorder

\* The callback of qApp->requestPermission runs.
PermissionResult ==
    /\ recorder.request_pending
    /\ recorder.permission # "Undetermined"
    /\ Recorded(<<"handlePermissionResult">>,
                handlePermissionResult([AtEventLoop(recorder) EXCEPT
                                           !.request_pending = FALSE]))
    /\ UNCHANGED notRecorder

NextRecorder ==
    \/ StartRecording \/ StopRecording \/ AutoStop \/ ProgressTick
    \/ AudioInput \/ RequestPermission \/ CheckPermission
    \/ PermissionChanges \/ PermissionResult

SpecRecorder == InitRecorder /\ [][NextRecorder]_vars

\* ------------------------------------------------------------------------
\* Configuration (HashGenerator and PeakDetector constructors and setters)
\* ------------------------------------------------------------------------
\* Bound of the configuration model: the calls made.
MaxCalls == 2

\* A float: a number of hundredths, or a NaN.
Float(v) == [nan |-> FALSE, v |-> v]
NaN == [nan |-> TRUE, v |-> 0]

\* a < b and a <= b on floats: false when either side is a NaN.
FloatLess(a, b) == ~a.nan /\ ~b.nan /\ a.v < b.v
FloatLessEq(a, b) == ~a.nan /\ ~b.nan /\ a.v <= b.v

\* The float and int arguments of the calls.
FloatValues == {Float(0 - 1), Float(0), Float(50), Float(100), Float(101), NaN}
IntValues == {0 - 1, 0, 1, 3}

\* HashGenerator(10.0f, 50) and PeakDetector(3, 0.7f, 0.01f).
DefaultGenerator ==
    [freq_quantization_ |-> Float(1000), time_quantization_ |-> 50]
DefaultDetector ==
    [min_peak_distance_ |-> 3, adaptive_factor_ |-> Float(70),
     min_magnitude_threshold_ |-> Float(1)]

\* quantization <= 0.0f
FrequencyQuantizationRejected(quantization) ==
    FloatLessEq(quantization, Float(0))

\* factor < 0.0f || factor > 1.0f
AdaptiveFactorRejected(factor) ==
    FloatLess(factor, Float(0)) \/ FloatLess(Float(100), factor)

\* threshold < 0.0f
MagnitudeThresholdRejected(threshold) == FloatLess(threshold, Float(0))

\* HashGenerator::HashGenerator: the object, or the exception.
NewHashGenerator(freq_quant, time_quant) ==
    IF FrequencyQuantizationRejected(freq_quant)
    THEN Thrown("Frequency quantization must be positive")
    ELSE IF time_quant <= 0
    THEN Thrown("Time quantization must be positive")
    ELSE Returned([freq_quantization_ |-> freq_quant,
                   time_quantization_ |-> time_quant])

\* PeakDetector::PeakDetector: the object, or the exception.
NewPeakDetector(distance, factor, threshold) ==
    IF distance <= 0
    THEN Thrown("Minimum peak distance must be positive")
    ELSE IF AdaptiveFactorRejected(factor)
    THEN Thrown("Adaptive factor must be between 0.0 and 1.0")
    ELSE IF MagnitudeThresholdRejected(threshold)
    THEN Thrown("Minimum magnitude threshold must be non-negative")
    ELSE Returned([min_peak_distance_ |-> distance,
                   adaptive_factor_ |-> factor,
                   min_magnitude_threshold_ |-> threshold])

set_frequency_quantization(g, quantization) ==
    IF FrequencyQuantizationRejected(quantization)
    THEN Thrown("Frequency quantization must be positive")
    ELSE Returned([g EXCEPT !.freq_quantization_ = quantization])

set_time_quantization(g, quantization) ==
    IF quantization <= 0 THEN Thrown("Time quantization must be positive")
    ELSE Returned([g EXCEPT !.time_quantization_ = quantization])

set_adaptive_factor(d, factor) ==
    IF AdaptiveFactorRejected(factor)
    THEN Thrown("Adaptive factor must be between 0.0 and 1.0")
    ELSE Returned([d EXCEPT !.adaptive_factor_ = factor])

set_min_peak_distance(d, distance) ==
    IF distance <= 0 THEN Thrown("Minimum peak distance must be positive")
    ELSE Returned([d EXCEPT !.min_peak_distance_ = distance])

set_min_magnitude_threshold(d, threshold) ==
    IF MagnitudeThresholdRejected(threshold)
    THEN Thrown("Minimum magnitude threshold must be non-negative")
    ELSE Returned([d EXCEPT !.min_magnitude_threshold_ = threshold])

\* A call on the generator: the object is the one the call returns, or the
\* one there was when the call throws.
GeneratorCall(name, outcome) ==
    /\ calls < MaxCalls
    /\ calls' = calls + 1
    /\ generator' = IF outcome.ok THEN outcome.value ELSE generator
    /\ config_call' = [name |-> name, error |-> outcome.error]
    /\ UNCHANGED detector

\* A call on the detector.
DetectorCall(name, outcome) ==
    /\ calls < MaxCalls
    /\ calls' = calls + 1
    /\ detector' = IF outcome.ok THEN outcome.value ELSE detector
    /\ config_call' = [name |-> name, error |-> outcome.error]
    /\ UNCHANGED generator

InitConfig ==
    /\ generator = DefaultGenerator
    /\ detector = DefaultDetector
    /\ config_call = [name |-> "", error |-> ""]
    /\ calls = 0
    /\ IdleExcept("config")

ConstructGenerator ==
    /\ \E f \in FloatValues, t \in IntValues :
          GeneratorCall("HashGenerator", NewHashGenerator(f, t))
    /\ UNCHANGED notConfig

ConstructDetector ==
    /\ \E n \in IntValues, f \in FloatValues, t \in FloatValues :
          DetectorCall("PeakDetector", NewPeakDetector(n, f, t))
    /\ UNCHANGED notConfig

SetFrequencyQuantization ==
    /\ \E f \in FloatValues :
          GeneratorCall("set_frequency_quantization",
                        set_frequency_quantization(generator, f))
    /\ UNCHANGED notConfig

SetTimeQuantization ==
    /\ \E t \in IntValues :
          GeneratorCall("set_time_quantization",
                        set_time_quantization(generator, t))
    /\ UNCHANGED notConfig

SetAdaptiveFactor ==
    /\ \E f \in FloatValues :
          DetectorCall("set_adaptive_factor", set_adaptive_factor(detector, f))
    /\ UNCHANGED notConfig

SetMinPeakDistance ==
    /\ \E n \in IntValues :
          DetectorCall("set_min_peak_distance",
                       set_min_peak_distance(detector, n))
    /\ UNCHANGED notConfig

SetMinMagnitudeThreshold ==
    /\ \E f \in FloatValues :
          DetectorCall("set_min_magnitude_threshold",
                       set_min_magnitude_threshold(detector, f))
    /\ UNCHANGED notConfig

NextConfig ==
    \/ ConstructGenerator \/ ConstructDetector
    \/ SetFrequencyQuantization \/ SetTimeQuantization
    \/ SetAdaptiveFactor \/ SetMinPeakDistance \/ SetMinMagnitudeThreshold

SpecConfig == InitConfig /\ [][NextConfig]_vars

\* ------------------------------------------------------------------------
\* Properties of the API client
\* ------------------------------------------------------------------------
\* What a call of identifyAudio with empty data is to do: one
\* identificationFailed and nothing else.
EmptyDataRejected ==
    /\ api'.emitted = << <<"identificationFailed">> >>
    /\ api'.replies = api.replies
    /\ ~api'.m_isProcessing
    /\ api'.m_uploadProgress = api.m_uploadProgress
    /\ api'.m_retryCount = api.m_retryCount
    /\ api'.m_pendingAudioData = api.m_pendingAudioData

\* C21 as stated: identifyAudio called with empty audio data emits
\* identificationFailed exactly once, sends no request, and leaves
\* isProcessing false and uploadProgress, the retry count and the pending
\* data unchanged.
C21_EmptyDataRejected ==
    [][observed'.event = <<"identifyAudio", "">> => EmptyDataRejected]_vars

\* C21 amended: identifyAudio called with empty audio data while isProcessing
\* is false emits identificationFailed exactly once, sends no request, and
\* leaves isProcessing false and uploadProgress, the retry count and the
\* pending data unchanged.
C21_EmptyDataRejectedWhenIdle ==
    [][observed'.event = <<"identifyAudio", "">> /\ ~api.m_isProcessing
          => EmptyDataRejected]_vars

\* identifyAudio has rejected empty data on a client that had identified a
\* recording before.
C21_Witness ==
    /\ observed.event = <<"identifyAudio", "">>
    /\ api.emitted = << <<"identificationFailed">> >>
    /\ api.m_uploadProgress = 100
    /\ ~api.m_isProcessing

\* C22: after cancelCurrentRequest returns, from any state, isProcessing is
\* false, uploadProgress is 0, no reply is outstanding, the pending audio data
\* is cleared and neither the timeout timer nor the retry timer is running.
C22_CancelClearsEverything ==
    observed.event = <<"cancelCurrentRequest">> =>
        /\ ~api.m_isProcessing
        /\ api.m_uploadProgress = 0
        /\ api.m_currentReply = 0
        /\ InFlight(api) = {}
        /\ api.m_pendingAudioData = ""
        /\ ~api.m_timeoutTimer
        /\ ~api.m_retryTimer

\* s is an initial part of t.
IsPrefix(s, t) == Len(s) <= Len(t) /\ \A k \in 1..Len(s) : s[k] = t[k]

\* C26: for one accepted identifyAudio call the retry counter increases by
\* exactly one per failed attempt and never exceeds MAX_RETRIES; retryAttempt
\* is emitted at most 3 times with the attempt numbers 1, 2, 3 in order, and
\* the request is sent at most 4 times.
C26_RetriesBounded ==
    [][/\ api'.m_retryCount \in {0, api.m_retryCount, api.m_retryCount + 1}
       /\ Len(Attempts(api'.emitted)) <= 1
       /\ api'.m_retryCount <= MAX_RETRIES
       /\ IsPrefix(observed'.attempts, <<1, 2, 3>>)
       /\ observed'.sends <= MAX_RETRIES + 1]_vars

\* C27: an accepted identifyAudio call is followed by one terminal signal,
\* identificationResult or identificationFailed, after which isProcessing is
\* false; no second terminal signal is emitted for the same identification.
C27_OneTerminalSignal ==
    /\ observed.terminals <= 1
    /\ observed.accepted > 0 /\ observed.terminals = 1 => ~api.m_isProcessing

\* C28: at most one identify request is outstanding at any time; identifyAudio
\* called while isProcessing is true is ignored, and no request is sent while
\* the reply of another is pending.
C28_OneRequestOutstanding ==
    [][/\ Cardinality(InFlight(api')) <= 1
       /\ observed'.event[1] = "identifyAudio" /\ api.m_isProcessing
             => api' = AtEventLoop(api)
       /\ Len(api'.replies) > Len(api.replies) => InFlight(api) = {}]_vars

\* ------------------------------------------------------------------------
\* Properties of the audio recorder
\* ------------------------------------------------------------------------
\* The signals of the last slot include recordingFailed.
RecordingFailedEmitted(w) ==
    \E k \in 1..Len(w.emitted) : w.emitted[k][1] = "recordingFailed"

\* C23: startRecording called while hasPermission is false (and nothing is
\* being recorded) leaves isRecording false, sets a non-empty errorMessage and
\* emits recordingFailed, without clearing the audio buffer or arming any
\* timer; stopRecording called while not recording changes no state and
\* emits no signal.
C23_StartWithoutPermission ==
    [][/\ recorded'.event = <<"startRecording">> /\ ~recorder.m_hasPermission
             /\ ~recorder.m_isRecording
          => /\ ~recorder'.m_isRecording
             /\ recorder'.m_errorMessage # ""
             /\ RecordingFailedEmitted(recorder')
             /\ recorder'.m_audioBuffer = recorder.m_audioBuffer
             /\ recorder'.m_progressTimer = recorder.m_progressTimer
             /\ recorder'.auto_stops = recorder.auto_stops
       /\ recorded'.event = <<"stopRecording">> /\ ~recorder.m_isRecording
          => recorder' = AtEventLoop(recorder)]_vars

\* C29: the automatic stop that ends a recording is the one armed by the
\* startRecording of that recording, so that a recording that is not stopped
\* manually lasts the full RECORDING_DURATION_MS.
C29_AutoStopOfOwnRecording ==
    Len(recorded.event) = 2 /\ recorded.event[1] = "autoStop"
        /\ recorded.ended # 0
    => recorded.event[2] = recorded.ended

\* ------------------------------------------------------------------------
\* Properties of the configuration
\* ------------------------------------------------------------------------
\* The parameters are in their ranges.
ConfigurationValid(g, d) ==
    /\ FloatLess(Float(0), g.freq_quantization_)
    /\ g.time_quantization_ > 0
    /\ d.min_peak_distance_ >= 1
    /\ FloatLessEq(Float(0), d.adaptive_factor_)
    /\ FloatLessEq(d.adaptive_factor_, Float(100))
    /\ FloatLessEq(Float(0), d.min_magnitude_threshold_)

\* C30: after any sequence of constructor and setter calls, rejected ones
\* included, freq_quantization > 0, time_quantization > 0,
\* min_peak_distance >= 1, 0 <= adaptive_factor <= 1 and
\* min_magnitude_threshold >= 0; a rejected call raises an error and leaves
\* every parameter unchanged.
C30_ConfigurationValid ==
    [][/\ ConfigurationValid(generator', detector')
       /\ config_call'.error # ""
             => generator' = generator /\ detector' = detector]_vars

\* ------------------------------------------------------------------------
\* The components together: one of them runs.
\* ------------------------------------------------------------------------
Init == InitCodec \/ InitBatch \/ InitPairs \/ InitPeaks \/ InitHash
          \/ InitPrep \/ InitResample \/ InitStft \/ InitPipeline
          \/ InitClient \/ InitRecorder \/ InitConfig

Next == NextCodec \/ NextBatch \/ NextPairs \/ NextPeaks \/ NextHash
          \/ NextPrep \/ NextResample \/ NextStft \/ NextPipeline
          \/ NextClient \/ NextRecorder \/ NextConfig

Spec == Init /\ [][Next]_vars

====
